---- MODULE Spec2Model ----
(***************************************************************************)
(* Progress monitoring of claude-code-slack-bot: the queue consumer that   *)
(* runs ProgressChecker.checkProgress on one session's request, the GitHub *)
(* issue whose comments it polls and the Slack thread it mirrors them to.  *)
(***************************************************************************)
EXTENDS Integers, Sequences, FiniteSets, TLC

\* ------------------------------------------------------------------ bounds
\* Date.now() when the issue is created (epoch milliseconds, positive).
T0 == 1
\* How far one Tick advances the clock, in milliseconds.
TickMs == 1800000
\* Ticks modelled after T0.
MaxTicks == 2
\* Comments ever created on the issue.
MaxComments == 2
\* Cycles of one session the model follows (attemptCount is unbounded in the code).
MaxAttempts == 2
\* Seconds of GitHub's clock in which a comment is edited after its creation.
MaxEdits == 1
\* How far around a threshold of the segmenter the lengths of the texts it is
\* given range.
Slack == 1

\* --------------------------------------------------------------- constants
\* An optional field that is absent. Every use in checkProgress tests the
\* field for truthiness, and present values are positive, so 0 stands for it.
undefined == 0

\* 30 * 60 * 1000 of the deadline check.
THIRTY_MINUTES == 30 * 60 * 1000

\* per_page of octokit.issues.listComments.
per_page == 100

\* maxLength of the update branch's length test.
maxLength == 3900

\* ts of the triggering message, the first message of the thread.
OriginalTs == 1

issueNumber == 7

\* ------------------------------------------------------------------ strings
\* A string is the sequence of its characters, each a one-character string;
\* a character outside ASCII is written by its code point ("U+2794").
Rep(c, n) == [i \in 1..n |-> c]

\* The characters String.prototype.trim removes that occur in these texts.
WhiteSpace == {" ", "\n", "\t", "\r"}

UpperCase ==
    <<"A", "B", "C", "D", "E", "F", "G", "H", "I", "J", "K", "L", "M", "N",
      "O", "P", "Q", "R", "S", "T", "U", "V", "W", "X", "Y", "Z">>

LowerCase ==
    <<"a", "b", "c", "d", "e", "f", "g", "h", "i", "j", "k", "l", "m", "n",
      "o", "p", "q", "r", "s", "t", "u", "v", "w", "x", "y", "z">>

\* String.prototype.toLowerCase, on the letters A-Z.
toLowerCase(s) ==
    [ i \in 1..Len(s) |->
        IF \E k \in 1..26 : UpperCase[k] = s[i]
        THEN LowerCase[CHOOSE k \in 1..26 : UpperCase[k] = s[i]]
        ELSE s[i] ]

\* String.prototype.includes
includes(s, pattern) ==
    \E k \in 0..(Len(s) - Len(pattern)) :
        SubSeq(s, k + 1, k + Len(pattern)) = pattern

\* String.prototype.lastIndexOf(c, fromIndex): the greatest 0-based index, at
\* most fromIndex, that holds c; -1 when there is none.
lastIndexOf(s, c, fromIndex) ==
    LET top == IF fromIndex < Len(s) - 1 THEN fromIndex ELSE Len(s) - 1 IN
    IF \E i \in 0..top : s[i + 1] = c
    THEN CHOOSE i \in 0..top :
            /\ s[i + 1] = c
            /\ \A j \in (i + 1)..top : s[j + 1] # c
    ELSE -1

\* String.prototype.substring(start, end), String.prototype.substring(start)
substring(s, start, end) == SubSeq(s, start + 1, end)
substringFrom(s, start) == SubSeq(s, start + 1, Len(s))

\* String.prototype.trim
trim(s) ==
    IF \A i \in 1..Len(s) : s[i] \in WhiteSpace THEN <<>>
    ELSE LET first == CHOOSE i \in 1..Len(s) :
                         /\ s[i] \notin WhiteSpace
                         /\ \A j \in 1..(i - 1) : s[j] \in WhiteSpace
             last == CHOOSE i \in 1..Len(s) :
                         /\ s[i] \notin WhiteSpace
                         /\ \A j \in (i + 1)..Len(s) : s[j] \in WhiteSpace
         IN SubSeq(s, first, last)

\* Math.max of three numbers.
max3(a, b, c) ==
    IF a >= b /\ a >= c THEN a ELSE IF b >= c THEN b ELSE c

\* ---------------------------------------------------- completion detector
\* The literal of commentBody.includes(...), as the source file holds it: its
\* last character before "]" is the three characters U+00E2 U+017E U+201D.
CreatePRMarker ==
    <<"[", "C", "r", "e", "a", "t", "e", " ", "P", "R", " ", "U+00E2",
      "U+017E", "U+201D", "]">>

finishedPatterns ==
    <<
      <<"c", "l", "a", "u", "d", "e", " ", "f", "i", "n", "i", "s", "h",
        "e", "d">>,
      <<"i", "m", "p", "l", "e", "m", "e", "n", "t", "a", "t", "i", "o",
        "n", " ", "c", "o", "m", "p", "l", "e", "t", "e">>,
      <<"t", "a", "s", "k", " ", "c", "o", "m", "p", "l", "e", "t", "e", "d">>,
      <<"d", "o", "n", "e", " ", "i", "m", "p", "l", "e", "m", "e", "n",
        "t", "i", "n", "g">>,
      <<"f", "i", "n", "i", "s", "h", "e", "d", " ", "i", "m", "p", "l",
        "e", "m", "e", "n", "t", "i", "n", "g">>,
      <<"c", "o", "m", "p", "l", "e", "t", "e", "d", " ", "t", "h", "e",
        " ", "i", "m", "p", "l", "e", "m", "e", "n", "t", "a", "t", "i",
        "o", "n">>,
      <<"a", "l", "l", " ", "c", "h", "a", "n", "g", "e", "s", " ", "h",
        "a", "v", "e", " ", "b", "e", "e", "n", " ", "m", "a", "d", "e">>,
      <<"i", "m", "p", "l", "e", "m", "e", "n", "t", "a", "t", "i", "o",
        "n", " ", "i", "s", " ", "c", "o", "m", "p", "l", "e", "t", "e">>,
      <<"r", "e", "s", "o", "l", "v", "e", "d">>,
      <<"f", "i", "x", "e", "d">>,
      <<"c", "l", "o", "s", "i", "n", "g", " ", "t", "h", "i", "s", " ",
        "i", "s", "s", "u", "e">>
    >>

\* Mutant: the patterns are looked for in the body as written.
isTaskFinished_caseSensitive(commentBody) ==
    \/ includes(commentBody, CreatePRMarker)
    \/ \E k \in DOMAIN finishedPatterns :
          includes(commentBody, finishedPatterns[k])

isTaskFinished(commentBody) ==
    \/ includes(commentBody, CreatePRMarker)
    \/ LET lowerBody == toLowerCase(commentBody)
       IN \E k \in DOMAIN finishedPatterns :
             includes(lowerBody, finishedPatterns[k])

\* --------------------------------------------------------------- segmenter
\* "|View on GitHub>" of the link template.
ViewOnGitHub ==
    <<"|", "V", "i", "e", "w", " ", "o", "n", " ", "G", "i", "t", "H", "u",
      "b", ">">>

\* `<${comment.html_url}|View on GitHub>`
linkOf(comment) == <<"<">> \o comment.html_url \o ViewOnGitHub

\* "\n\n", which joins two pieces of one message.
BlankLine == <<"\n", "\n">>

\* Character i of body belongs to a match of /\n\n+/.
inSeparator(body, i) ==
    /\ body[i] = "\n"
    /\ \/ i > 1 /\ body[i - 1] = "\n"
       \/ i < Len(body) /\ body[i + 1] = "\n"

\* body.split(/\n\n+/).filter((p) => p.trim()), from character i on.
RECURSIVE paragraphsFrom(_, _)
paragraphsFrom(body, i) ==
    IF ~ \E s \in i..Len(body) : ~inSeparator(body, s) THEN <<>>
    ELSE LET start == CHOOSE s \in i..Len(body) :
                         /\ ~inSeparator(body, s)
                         /\ \A k \in i..(s - 1) : inSeparator(body, k)
             end == CHOOSE e \in start..Len(body) :
                         /\ e = Len(body) \/ inSeparator(body, e + 1)
                         /\ \A k \in start..e : ~inSeparator(body, k)
             p == SubSeq(body, start, end)
         IN (IF trim(p) # <<>> THEN <<p>> ELSE <<>>)
               \o paragraphsFrom(body, end + 1)

\* Mutant: the remainder starts after the boundary character.
splitOnce_dropsBoundary(paragraph) ==
    LET lastPeriod == lastIndexOf(paragraph, ".", maxLength - 100)
        lastNewline == lastIndexOf(paragraph, "\n", maxLength - 100)
        lastSpace == lastIndexOf(paragraph, " ", maxLength - 100)
        found == max3(lastPeriod, lastNewline, lastSpace)
        breakPoint == IF found <= 0 THEN maxLength - 100 ELSE found
    IN [ lastPeriod |-> lastPeriod, lastNewline |-> lastNewline,
         lastSpace |-> lastSpace, breakPoint |-> breakPoint,
         chunk |-> trim(substring(paragraph, 0, breakPoint)),
         paragraph |-> trim(substringFrom(paragraph, breakPoint + 1)) ]

\* Mutant: a separator at index 0 is taken as the break point.
splitOnce_breaksAtZero(paragraph) ==
    LET lastPeriod == lastIndexOf(paragraph, ".", maxLength - 100)
        lastNewline == lastIndexOf(paragraph, "\n", maxLength - 100)
        lastSpace == lastIndexOf(paragraph, " ", maxLength - 100)
        found == max3(lastPeriod, lastNewline, lastSpace)
        breakPoint == IF found < 0 THEN maxLength - 100 ELSE found
    IN [ lastPeriod |-> lastPeriod, lastNewline |-> lastNewline,
         lastSpace |-> lastSpace, breakPoint |-> breakPoint,
         chunk |-> trim(substring(paragraph, 0, breakPoint)),
         paragraph |-> trim(substringFrom(paragraph, breakPoint)) ]

\* Mutant: a period is preferred to a newline, and a newline to a space.
splitOnce_prefersPeriod(paragraph) ==
    LET lastPeriod == lastIndexOf(paragraph, ".", maxLength - 100)
        lastNewline == lastIndexOf(paragraph, "\n", maxLength - 100)
        lastSpace == lastIndexOf(paragraph, " ", maxLength - 100)
        found == IF lastPeriod > 0 THEN lastPeriod
                 ELSE IF lastNewline > 0 THEN lastNewline ELSE lastSpace
        breakPoint == IF found <= 0 THEN maxLength - 100 ELSE found
    IN [ lastPeriod |-> lastPeriod, lastNewline |-> lastNewline,
         lastSpace |-> lastSpace, breakPoint |-> breakPoint,
         chunk |-> trim(substring(paragraph, 0, breakPoint)),
         paragraph |-> trim(substringFrom(paragraph, breakPoint)) ]

\* One pass of the while loop's body up to the two substring calls: the break
\* point of a paragraph longer than maxLength - 100, the chunk before it and
\* the paragraph that remains.
splitOnce(paragraph) ==
    LET lastPeriod == lastIndexOf(paragraph, ".", maxLength - 100)
        lastNewline == lastIndexOf(paragraph, "\n", maxLength - 100)
        lastSpace == lastIndexOf(paragraph, " ", maxLength - 100)
        found == max3(lastPeriod, lastNewline, lastSpace)
        breakPoint == IF found <= 0 THEN maxLength - 100 ELSE found
    IN [ lastPeriod |-> lastPeriod, lastNewline |-> lastNewline,
         lastSpace |-> lastSpace, breakPoint |-> breakPoint,
         chunk |-> trim(substring(paragraph, 0, breakPoint)),
         paragraph |-> trim(substringFrom(paragraph, breakPoint)) ]

\* Mutant: a piece always joins the current message.
accumulate_neverCloses(st, piece) ==
    [ st EXCEPT !.currentMessage =
        IF st.currentMessage # <<>>
        THEN st.currentMessage \o BlankLine \o piece ELSE piece ]

\* The if/else that adds a chunk or a paragraph to the current message, or
\* closes the current message and starts the next one with it.
accumulate(st, piece) ==
    IF /\ st.currentMessage # <<>>
       /\ Len(st.currentMessage \o BlankLine \o piece) > maxLength
    THEN [ st EXCEPT !.messages = Append(@, st.currentMessage),
                     !.currentMessage = piece ]
    ELSE [ st EXCEPT !.currentMessage =
             IF st.currentMessage # <<>>
             THEN st.currentMessage \o BlankLine \o piece ELSE piece ]

\* while (paragraph.length > maxLength - 100) { ... }
RECURSIVE splitLong(_, _)
splitLong(st, paragraph) ==
    IF Len(paragraph) > maxLength - 100
    THEN LET s == splitOnce(paragraph)
         IN splitLong(accumulate(st, s.chunk), s.paragraph)
    ELSE IF paragraph # <<>> THEN accumulate(st, paragraph) ELSE st

\* for (let i = 0; i < paragraphs.length; i++) { ... }, from paragraph i on.
RECURSIVE addParagraphs(_, _, _)
addParagraphs(st, paragraphs, i) ==
    IF i > Len(paragraphs) THEN st
    ELSE addParagraphs(splitLong(st, paragraphs[i]), paragraphs, i + 1)

\* Mutant: the link always joins the last message.
addLink_alwaysAppends(messages, link) ==
    IF Len(messages) > 0
    THEN [messages EXCEPT ![Len(messages)] = @ \o BlankLine \o link]
    ELSE <<link>>

\* The link joins the last message if it fits, or is a message of its own.
addLink(messages, link) ==
    IF Len(messages) > 0
    THEN IF Len(messages[Len(messages)]) + Len(link) + 4 < maxLength
         THEN [messages EXCEPT ![Len(messages)] = @ \o BlankLine \o link]
         ELSE Append(messages, link)
    ELSE <<link>>

\* comment.body here is markdownToSlack(comment.body): the conversion is not
\* among the sources, and the segmenter works on its result.
formatCommentForSlack(comment) ==
    LET link == linkOf(comment)
        body == comment.body
    IN IF Len(body) + Len(link) + 4 < maxLength
       THEN << body \o BlankLine \o link >>
       ELSE LET st == addParagraphs([currentMessage |-> <<>>, messages |-> <<>>],
                                    paragraphsFrom(body, 1), 1)
                messages == IF st.currentMessage # <<>>
                            THEN Append(st.messages, st.currentMessage)
                            ELSE st.messages
            IN addLink(messages, link)

\* ------------------------------------------------------------ the comments
\* html_url of a comment of the issue.
HtmlUrl ==
    <<"h", "t", "t", "p", "s", ":", "/", "/", "g", "i", "t", "h", "u", "b",
      ".", "c", "o", "m", "/", "o", "/", "r", "/", "i", "s", "s", "u", "e",
      "s", "/", "7", "#", "i", "s", "s", "u", "e", "c", "o", "m", "m", "e",
      "n", "t", "-", "1">>

\* The bodies the issue's comments have in the monitored session: a progress
\* note, and a long report that says the work is fixed.
CommentTexts ==
    { <<"W", "o", "r", "k", "i", "n", "g", " ", "o", "n", " ", "i", "t", ".">>,
      Rep("a", maxLength) \o
      <<" ", "f", "i", "x", "e", "d">> }

\* A comment body, as far as a cycle looks at it: what isTaskFinished(body)
\* returns and the lengths of the messages formatCommentForSlack returns.
Bodies ==
    { LET messages == formatCommentForSlack([html_url |-> HtmlUrl, body |-> t])
      IN [ finished |-> isTaskFinished(t),
           lengths |-> [i \in 1..Len(messages) |-> Len(messages[i])] ]
      : t \in CommentTexts }

VARIABLES
    now,         \* Date.now()
    comments,    \* the issue's comments on GitHub, in ascending id order
    nextId,      \* id GitHub gives the next comment
    queue,       \* PROGRESS_QUEUE: the request bodies waiting for the consumer
    thread,      \* the Slack thread: thread[ts] is the text of message ts
    eyes,        \* the messages that carry the eyes reaction
    changed,     \* whether the issue's comments changed since the last cycle
    cycle,       \* what the last checkProgress call was given, did and returned,
                 \* and whether the session has called reactions.remove for
                 \* the original message
    pure,        \* a text function's argument and, once applied, its result
    consumer,    \* the queue handler's invocation: its batch, the message
                 \* the loop is at, and what it has called for each message
    handler      \* the Slack event handlers: the KV namespace, the issues,
                 \* comments and sessions they created, and each running
                 \* handler's position and calls
\* A comment's created_at and updated_at are seconds of GitHub's clock, which
\* checkProgress compares with each other only: created_at is the comment's
\* id-th second, updated_at the second of its last edit.

vars == <<now, comments, nextId, queue, thread, eyes, changed, cycle, pure,
          consumer, handler>>

\* No Slack event has been delivered.
NoEvents == [procs |-> <<>>]

\* No invocation of the queue handler is in progress.
NoBatch == [pc |-> "idle"]

\* ---------------------------------------------------------------- requests
\* The request triggerProgressCheck builds when the issue is created.
TriggerRequest ==
    [ issueNumber |-> issueNumber, channel |-> "C1", threadId |-> OriginalTs,
      attemptCount |-> 0, lastCommentId |-> undefined,
      slackMessageTs |-> undefined, originalMessageTs |-> undefined,
      startTime |-> undefined, isFinalCheck |-> FALSE ]

\* A first request that carries every field of the session (ProgressCheckRequest
\* with originalMessageTs and startTime present).
FullRequest ==
    [ TriggerRequest EXCEPT !.originalMessageTs = OriginalTs, !.startTime = T0 ]

\* ------------------------------------------------------------------- Slack
TimeoutNotice == [kind |-> "timeout", comment |-> 0, index |-> 0, length |-> 84]
FailureNotice == [kind |-> "fetch_failed", comment |-> 0, index |-> 0, length |-> 60]

\* The acc record threaded through a cycle: the thread, the calls made so far,
\* the number of chat calls made, and the last chat response's ts (undefined
\* for the null postToSlack returns when the call threw). A call record keeps
\* the ts of the call's response; acc.log is what the cycle's
\* "Latest comment ... was created/updated" console.log line says.
postToSlack(acc, text, updateTs, ok) ==
    LET succeeds == ok[acc.k + 1] IN
    IF updateTs # undefined
    THEN [ acc EXCEPT
             !.calls = Append(@, [op |-> "chat.update", ts |-> updateTs,
                                  text |-> text, ok |-> succeeds,
                                  response |-> IF succeeds THEN updateTs
                                               ELSE undefined]),
             !.thread = IF succeeds /\ updateTs \in DOMAIN acc.thread
                        THEN [@ EXCEPT ![updateTs] = text] ELSE @,
             !.k = @ + 1,
             !.response = IF succeeds THEN updateTs ELSE undefined ]
    ELSE [ acc EXCEPT
             !.calls = Append(@, [op |-> "chat.postMessage", ts |-> undefined,
                                  text |-> text, ok |-> succeeds,
                                  response |-> IF succeeds
                                               THEN Len(acc.thread) + 1
                                               ELSE undefined]),
             !.thread = IF succeeds THEN Append(@, text) ELSE @,
             !.k = @ + 1,
             !.response = IF succeeds THEN Len(acc.thread) + 1 ELSE undefined ]

removeEyesEmoji(acc, timestamp, okEyes) ==
    [ acc EXCEPT
        !.calls = Append(@, [op |-> "reactions.remove", ts |-> timestamp,
                             text |-> [kind |-> "eyes", comment |-> 0,
                                       index |-> 0, length |-> 0],
                             ok |-> okEyes, response |-> undefined]),
        !.removed = IF okEyes THEN @ \cup {timestamp} ELSE @ ]

\* ------------------------------------------------------------------ GitHub
\* Mutant: the catch block answers an empty list instead of the error value.
getIssueComments_swallowsError(all, fails) ==
    IF fails THEN [error |-> FALSE, list |-> <<>>]
    ELSE [error |-> FALSE,
          list |-> SubSeq(all, 1, IF Len(all) < per_page THEN Len(all) ELSE per_page)]

\* octokit.issues.listComments: the first page of the issue's comments, or
\* the error value when the request throws.
getIssueComments(all, fails) ==
    IF fails THEN [error |-> TRUE, list |-> <<>>]
    ELSE [error |-> FALSE,
          list |-> SubSeq(all, 1, IF Len(all) < per_page THEN Len(all) ELSE per_page)]

\* const slackMessages = this.formatCommentForSlack(latestComment): message i
\* of the comment, known by the comment's id, its index and its length.
slackMessagesOf(comment) ==
    [ i \in 1..Len(comment.body.lengths) |->
        [kind |-> "comment", comment |-> comment.id, index |-> i,
         length |-> comment.body.lengths[i]] ]

\* ----------------------------------------------------------- checkProgress
\* Mutant: the ceiling is an hour.
timedOut_hour(startTime, t) ==
    startTime # undefined /\ t - startTime > 2 * THIRTY_MINUTES

\* startTime && Date.now() - startTime > 30 * 60 * 1000
timedOut(startTime, t) ==
    startTime # undefined /\ t - startTime > THIRTY_MINUTES

\* Mutant: the id test is >=, so the comment seen last counts as new again.
isNewComment_atLeast(lastCommentId, latestComment) ==
    lastCommentId = undefined \/ latestComment.id >= lastCommentId

\* Mutant: any other id than the last one counts as new.
isNewComment_otherId(lastCommentId, latestComment) ==
    lastCommentId = undefined \/ latestComment.id # lastCommentId

\* !lastCommentId || latestComment.id > lastCommentId
isNewComment(lastCommentId, latestComment) ==
    lastCommentId = undefined \/ latestComment.id > lastCommentId

\* Mutant: any edited comment counts as updated.
hasBeenUpdated_anyEdit(lastCommentId, latestComment) ==
    latestComment.updated_at > latestComment.created_at

\* lastCommentId === latestComment.id && updated_at > created_at
hasBeenUpdated(lastCommentId, latestComment) ==
    /\ lastCommentId = latestComment.id
    /\ latestComment.updated_at > latestComment.created_at

\* Mutant: the latest comment is the one edited last.
latestOf_lastEdited(allComments) ==
    allComments[CHOOSE i \in DOMAIN allComments :
                   \A j \in DOMAIN allComments :
                      \/ allComments[j].updated_at < allComments[i].updated_at
                      \/ /\ allComments[j].updated_at = allComments[i].updated_at
                         /\ j <= i]

\* allComments[allComments.length - 1]
latestOf(allComments) == allComments[Len(allComments)]

\* return { shouldContinue: false }
Terminate(path, acc) ==
    [ result |-> [shouldContinue |-> FALSE], path |-> path,
      calls |-> acc.calls, thread |-> acc.thread, removed |-> acc.removed,
      log |-> acc.log ]

\* Mutant: the next request is built afresh from the session's identity and
\* the attempt count, as triggerProgressCheck builds the first one.
Continue_freshRequest(path, nextRequest, acc) ==
    [ result |-> [shouldContinue |-> TRUE,
                  nextRequest |-> [TriggerRequest EXCEPT !.attemptCount =
                                     nextRequest.attemptCount]],
      path |-> path,
      calls |-> acc.calls, thread |-> acc.thread, removed |-> acc.removed,
      log |-> acc.log ]

\* Mutant: the next request does not carry the original message's ts.
Continue_dropsOriginalTs(path, nextRequest, acc) ==
    [ result |-> [shouldContinue |-> TRUE,
                  nextRequest |-> [nextRequest EXCEPT
                                     !.originalMessageTs = undefined]],
      path |-> path,
      calls |-> acc.calls, thread |-> acc.thread, removed |-> acc.removed,
      log |-> acc.log ]

\* Mutant: continue is returned without the next request.
Continue_withoutNext(path, nextRequest, acc) ==
    [ result |-> [shouldContinue |-> TRUE], path |-> path,
      calls |-> acc.calls, thread |-> acc.thread, removed |-> acc.removed,
      log |-> acc.log ]

\* return { shouldContinue: true, nextRequest }
Continue(path, nextRequest, acc) ==
    [ result |-> [shouldContinue |-> TRUE, nextRequest |-> nextRequest],
      path |-> path,
      calls |-> acc.calls, thread |-> acc.thread, removed |-> acc.removed,
      log |-> acc.log ]

\* for (...) postToSlack(channel, threadId, slackMessages[i]) from message i on;
\* acc.first keeps the response to message 1 when message 1 is among them.
RECURSIVE postAll(_, _, _, _)
postAll(acc, slackMessages, i, ok) ==
    IF i > Len(slackMessages) THEN acc
    ELSE LET a == postToSlack(acc, slackMessages[i], undefined, ok)
         IN postAll(IF i = 1 THEN [a EXCEPT !.first = a.response] ELSE a,
                    slackMessages, i + 1, ok)

\* Mutant: the first message replaces the message of slackMessageTs whenever
\* there is one, for new comments too.
emitComment_alwaysUpdates(acc, request, updated, slackMessages, ok) ==
    IF Len(slackMessages) > 0
    THEN LET a1 == postToSlack(acc, slackMessages[1],
                               request.slackMessageTs, ok)
         IN [postAll(a1, slackMessages, 2, ok)
               EXCEPT !.newSlackTs = IF a1.response # undefined
                                     THEN a1.response
                                     ELSE request.slackMessageTs]
    ELSE acc

\* Mutant: an updated comment is posted again, every message a new one.
emitComment_repostsAll(acc, request, updated, slackMessages, ok) ==
    IF updated /\ Len(slackMessages) > 0
    THEN [postAll(acc, slackMessages, 1, ok)
            EXCEPT !.newSlackTs = request.slackMessageTs]
    ELSE LET a == postAll(acc, slackMessages, 1, ok)
         IN [a EXCEPT !.newSlackTs =
                IF Len(slackMessages) > 0 /\ a.first # undefined
                THEN a.first ELSE request.slackMessageTs]

\* Mutant: newSlackTs is slackResponse?.ts, without the || slackMessageTs.
emitComment_noFallback(acc, request, updated, slackMessages, ok) ==
    IF updated /\ Len(slackMessages) > 0
    THEN IF slackMessages[1].length > maxLength
         THEN [postAll(acc, slackMessages, 1, ok)
                 EXCEPT !.newSlackTs = request.slackMessageTs]
         ELSE [postAll(postToSlack(acc, slackMessages[1],
                                   request.slackMessageTs, ok),
                       slackMessages, 2, ok)
                 EXCEPT !.newSlackTs = request.slackMessageTs]
    ELSE LET a == postAll(acc, slackMessages, 1, ok)
         IN [a EXCEPT !.newSlackTs =
                IF Len(slackMessages) > 0
                THEN a.first ELSE request.slackMessageTs]

\* The emission of a new or updated comment; returns acc with newSlackTs.
\* Mutant: a first message over maxLength - 100 is too long for an update.
emitComment_lowerLimit(acc, request, updated, slackMessages, ok) ==
    IF updated /\ Len(slackMessages) > 0
    THEN IF slackMessages[1].length > maxLength - 100
         THEN [postAll(acc, slackMessages, 1, ok)
                 EXCEPT !.newSlackTs = request.slackMessageTs]
         ELSE [postAll(postToSlack(acc, slackMessages[1],
                                   request.slackMessageTs, ok),
                       slackMessages, 2, ok)
                 EXCEPT !.newSlackTs = request.slackMessageTs]
    ELSE LET a == postAll(acc, slackMessages, 1, ok)
         IN [a EXCEPT !.newSlackTs =
                IF Len(slackMessages) > 0 /\ a.first # undefined
                THEN a.first ELSE request.slackMessageTs]

emitComment(acc, request, updated, slackMessages, ok) ==
    IF updated /\ Len(slackMessages) > 0
    THEN IF slackMessages[1].length > maxLength
         THEN [postAll(acc, slackMessages, 1, ok)
                 EXCEPT !.newSlackTs = request.slackMessageTs]
         ELSE [postAll(postToSlack(acc, slackMessages[1],
                                   request.slackMessageTs, ok),
                       slackMessages, 2, ok)
                 EXCEPT !.newSlackTs = request.slackMessageTs]
    ELSE LET a == postAll(acc, slackMessages, 1, ok)
         IN [a EXCEPT !.newSlackTs =
                IF Len(slackMessages) > 0 /\ a.first # undefined
                THEN a.first ELSE request.slackMessageTs]

\* Mutant: a finished comment ends the session at once, with no final check.
afterEmit_stopsWhenFinished(acc, request, latestComment, okEyes) ==
    LET next == [ request EXCEPT
                    !.attemptCount = @ + 1,
                    !.lastCommentId = latestComment.id,
                    !.slackMessageTs = acc.newSlackTs ]
    IN IF latestComment.body.finished
       THEN Terminate("finished",
                      IF request.originalMessageTs # undefined
                      THEN removeEyesEmoji(acc, request.originalMessageTs, okEyes)
                      ELSE acc)
       ELSE Continue("emitted", next, acc)

\* Mutant: the final-check test is inverted.
afterEmit_invertedFinalCheck(acc, request, latestComment, okEyes) ==
    LET next == [ request EXCEPT
                    !.attemptCount = @ + 1,
                    !.lastCommentId = latestComment.id,
                    !.slackMessageTs = acc.newSlackTs ]
    IN IF latestComment.body.finished
       THEN Continue("finished", [next EXCEPT !.isFinalCheck = TRUE],
                     IF request.originalMessageTs # undefined
                     THEN removeEyesEmoji(acc, request.originalMessageTs, okEyes)
                     ELSE acc)
       ELSE IF ~request.isFinalCheck
            THEN Terminate("final_done", acc)
            ELSE Continue("emitted", next, acc)

\* Mutant: the next request after an emission keeps the old attemptCount.
afterEmit_sameAttemptCount(acc, request, latestComment, okEyes) ==
    LET next == [ request EXCEPT
                    !.lastCommentId = latestComment.id,
                    !.slackMessageTs = acc.newSlackTs ]
    IN IF latestComment.body.finished
       THEN Continue("finished", [next EXCEPT !.isFinalCheck = TRUE],
                     IF request.originalMessageTs # undefined
                     THEN removeEyesEmoji(acc, request.originalMessageTs, okEyes)
                     ELSE acc)
       ELSE IF request.isFinalCheck
            THEN Terminate("final_done", acc)
            ELSE Continue("emitted", next, acc)

\* What follows the emission: the finished test, then the final-check test.
afterEmit(acc, request, latestComment, okEyes) ==
    LET next == [ request EXCEPT
                    !.attemptCount = @ + 1,
                    !.lastCommentId = latestComment.id,
                    !.slackMessageTs = acc.newSlackTs ]
    IN IF latestComment.body.finished
       THEN Continue("finished", [next EXCEPT !.isFinalCheck = TRUE],
                     IF request.originalMessageTs # undefined
                     THEN removeEyesEmoji(acc, request.originalMessageTs, okEyes)
                     ELSE acc)
       ELSE IF request.isFinalCheck
            THEN Terminate("final_done", acc)
            ELSE Continue("emitted", next, acc)

\* One cycle. t is Date.now(); all the issue's comments; fetchFails, ok and
\* okEyes are the outcomes of the GitHub and Slack calls the cycle makes.
checkProgress(request, t, all, thr, fetchFails, ok, okEyes) ==
    LET acc0 == [ thread |-> thr, calls |-> <<>>, k |-> 0, removed |-> {},
                  response |-> undefined, first |-> undefined,
                  newSlackTs |-> request.slackMessageTs, log |-> "none" ]
    IN
    IF timedOut(request.startTime, t)
    THEN LET a == postToSlack(acc0, TimeoutNotice, request.slackMessageTs, ok)
         IN Terminate("timeout",
                      IF request.originalMessageTs # undefined
                      THEN removeEyesEmoji(a, request.originalMessageTs, okEyes)
                      ELSE a)
    ELSE
    LET fetched == getIssueComments(all, fetchFails)
        acc1 == [ acc0 EXCEPT !.calls =
                    Append(@, [op |-> "getIssueComments", ts |-> undefined,
                               text |-> [kind |-> "fetch", comment |-> 0,
                                         index |-> 0, length |-> 0],
                               ok |-> ~fetchFails, response |-> undefined]) ]
    IN
    IF fetched.error
    THEN Terminate("fetch_error",
                   postToSlack(acc1, FailureNotice, request.slackMessageTs, ok))
    ELSE
    LET allComments == fetched.list IN
    IF Len(allComments) = 0
    THEN Continue("no_comments",
                  [request EXCEPT !.attemptCount = @ + 1], acc1)
    ELSE
    LET latestComment == latestOf(allComments)
        new == isNewComment(request.lastCommentId, latestComment)
        updated == hasBeenUpdated(request.lastCommentId, latestComment)
    IN
    IF new \/ updated
    THEN afterEmit(emitComment([acc1 EXCEPT !.log = IF new THEN "created"
                                                     ELSE "updated"],
                               request, updated,
                               slackMessagesOf(latestComment), ok),
                   request, latestComment, okEyes)
    ELSE Continue("unchanged",
                  [request EXCEPT !.attemptCount = @ + 1], acc1)

\* ----------------------------------------------------------------- actions
\* The thread when monitoring starts: the triggering message and the bot's
\* "GitHub issue created" reply.
Plain(kind) == [kind |-> kind, comment |-> 0, index |-> 0, length |-> 40]

\* The outcomes of the chat calls of one cycle, in call order: a cycle makes
\* at most one call per message of the longest body.
ChatOutcomes == [1..2 -> BOOLEAN]

Init ==
    /\ now = T0
    /\ comments = <<>>
    /\ nextId = 1
    /\ \E first \in {TriggerRequest, FullRequest} :
         /\ queue = <<first>>
         /\ eyes = IF first.originalMessageTs # undefined
                   THEN {OriginalTs} ELSE {}
         /\ cycle = [ n |-> 0, request |-> first, t |-> T0,
                      result |-> [shouldContinue |-> TRUE, nextRequest |-> first],
                      path |-> "none", calls |-> <<>>, log |-> "none",
                      cleared |-> FALSE,
                      sameList |-> FALSE, first |-> first ]
    /\ changed = FALSE
    /\ thread = <<Plain("original"), Plain("issue_created")>>
    /\ pure = [op |-> "none"]
    /\ consumer = NoBatch
    /\ handler = NoEvents

\* The session is being monitored, within the cycles the model follows.
Live == queue # <<>> /\ Head(queue).attemptCount < MaxAttempts

\* Time passes.
Tick ==
    /\ Live
    /\ now < T0 + MaxTicks * TickMs
    /\ now' = now + TickMs
    /\ UNCHANGED <<comments, nextId, queue, thread, eyes, changed, cycle, pure,
                   consumer, handler>>

\* Someone (the upstream automation, a user) comments on the issue.
AddComment ==
    /\ Live
    /\ nextId <= MaxComments
    /\ \E body \in Bodies :
         comments' = Append(comments,
                            [id |-> nextId, created_at |-> nextId,
                             updated_at |-> nextId, body |-> body])
    /\ nextId' = nextId + 1
    /\ changed' = TRUE
    /\ UNCHANGED <<now, queue, thread, eyes, cycle, pure, consumer, handler>>

\* A comment is edited on GitHub: its body changes, updated_at is the second
\* of the edit, which may be the second of the previous edit or creation.
EditComment ==
    /\ Live
    /\ \E i \in DOMAIN comments, body \in Bodies, later \in BOOLEAN :
         /\ body # comments[i].body
         /\ later => comments[i].updated_at < comments[i].created_at + MaxEdits
         /\ comments' = [comments EXCEPT
                           ![i].body = body,
                           ![i].updated_at = IF later THEN @ + 1 ELSE @]
    /\ changed' = TRUE
    /\ UNCHANGED <<now, nextId, queue, thread, eyes, cycle, pure, consumer,
                   handler>>

\* A comment is deleted on GitHub.
DeleteComment ==
    /\ Live
    /\ \E i \in DOMAIN comments :
         comments' = SubSeq(comments, 1, i - 1)
                       \o SubSeq(comments, i + 1, Len(comments))
    /\ changed' = TRUE
    /\ UNCHANGED <<now, nextId, queue, thread, eyes, cycle, pure, consumer,
                   handler>>

\* The queue consumer takes one message: checkProgress(payload), then
\* PROGRESS_QUEUE.send(result.nextRequest) when the result says to continue,
\* then message.ack().
Consume ==
    /\ Live
    /\ \E fetchFails \in BOOLEAN, ok \in ChatOutcomes, okEyes \in BOOLEAN :
         LET payload == Head(queue)
             out == checkProgress(payload, now, comments, thread,
                                  fetchFails, ok, okEyes)
         IN /\ queue' = IF out.result.shouldContinue
                           /\ "nextRequest" \in DOMAIN out.result
                        THEN Append(Tail(queue), out.result.nextRequest)
                        ELSE Tail(queue)
            /\ thread' = out.thread
            /\ eyes' = eyes \ out.removed
            /\ cycle' = [ n |-> cycle.n + 1, request |-> payload, t |-> now,
                          result |-> out.result, path |-> out.path,
                          calls |-> out.calls, log |-> out.log,
                          cleared |-> \/ cycle.cleared
                                      \/ \E i \in DOMAIN out.calls :
                                            /\ out.calls[i].op = "reactions.remove"
                                            /\ out.calls[i].ts =
                                                 payload.originalMessageTs,
                          sameList |-> cycle.n > 0 /\ ~changed,
                          first |-> cycle.first ]
    /\ changed' = FALSE
    /\ UNCHANGED <<now, comments, nextId, pure, consumer, handler>>

Next == Tick \/ AddComment \/ EditComment \/ DeleteComment \/ Consume

Spec == Init /\ [][Next]_vars

\* ------------------------------------------------- the text functions alone
\* The lengths within Slack of n.
Near(n) == (n - Slack)..(n + Slack)

\* The separators between the runs of a text.
Separators == { <<>>, <<".">>, <<" ">>, <<"\n">>, BlankLine, <<"\n", "\n", "\n">> }

\* The length of the link of HtmlUrl, and the longest text the link joins.
LinkLength == Len(linkOf([html_url |-> HtmlUrl]))
LongestWithLink == maxLength - LinkLength - 5

\* The bodies the segmenter is given: two runs of letters around a separator,
\* with lengths around its thresholds; three runs with two separators; and
\* bodies of white space.
SegmenterBodies ==
    { Rep("a", n1) \o sep \o Rep("b", n2) :
        n1 \in {0, 1, 3000} \cup Near(maxLength - 100),
        sep \in Separators,
        n2 \in {0, 900} \cup Near(LongestWithLink - (maxLength - 100) - 1)
                 \cup Near(98) \cup Near(LongestWithLink - 3000 - 2) }
    \cup
    { Rep("a", n1) \o sep1 \o Rep("b", 900) \o sep2 \o Rep("c", 3000) :
        n1 \in {0, 1, 3000},
        sep1 \in Separators,
        sep2 \in { <<" ">>, <<".">>, BlankLine } }
    \cup
    { Rep(" ", maxLength), Rep("\n", maxLength),
      Rep(" ", 10) \o Rep("a", maxLength) }

\* The paragraphs the while loop is given: the bodies that are one paragraph,
\* and long paragraphs whose only separator is their first character.
Paragraphs ==
    { b \in SegmenterBodies :
        /\ \A i \in 1..Len(b) : ~inSeparator(b, i)
        /\ trim(b) # <<>> }
    \cup
    { <<c>> \o Rep("b", n) : c \in {".", " "}, n \in Near(maxLength - 100) }

\* "[Create PR " and the character the upstream automation writes, U+2794.
CreatePRArrow ==
    <<"[", "C", "r", "e", "a", "t", "e", " ", "P", "R", " ", "U+2794", "]">>

\* Texts that say the work is done, and texts that nearly do.
Phrases ==
    { finishedPatterns[k] : k \in DOMAIN finishedPatterns }
    \cup { CreatePRMarker, CreatePRArrow, <<>> }
    \cup {
      <<"t", "a", "s", "k", " ", "c", "o", "m", "p", "l", "e", "t", "e">>,
      <<"r", "e", "s", "o", "l", "v", "e">>,
      <<"f", "i", "x", "i", "n", "g">>,
      <<"c", "l", "o", "s", "i", "n", "g", " ", "t", "h", "e", " ", "i",
        "s", "s", "u", "e">>,
      <<"c", "l", "a", "u", "d", "e", " ", "i", "s", " ", "w", "o", "r",
        "k", "i", "n", "g">>
    }

\* A text in upper case, as written, and with its first letter in upper case.
toUpperCase(s) ==
    [ i \in 1..Len(s) |->
        IF \E k \in 1..26 : LowerCase[k] = s[i]
        THEN UpperCase[CHOOSE k \in 1..26 : LowerCase[k] = s[i]]
        ELSE s[i] ]

Cased(s) ==
    { s, toUpperCase(s), toLowerCase(s),
      [i \in 1..Len(s) |-> IF i = 1 THEN toUpperCase(s)[i] ELSE s[i]] }

\* The texts isTaskFinished is given.
DetectorTexts ==
    { before \o t \o after :
        before \in { <<>>, <<"u", "n">>, <<"I", "t", " ", "i", "s", " ">> },
        t \in UNION { Cased(p) : p \in Phrases },
        after \in { <<>>, <<"!">> } }

\* Nothing is being monitored.
Idle ==
    /\ now = T0
    /\ comments = <<>>
    /\ nextId = 1
    /\ queue = <<>>
    /\ thread = <<>>
    /\ eyes = {}
    /\ changed = FALSE
    /\ cycle = [n |-> 0]
    /\ consumer = NoBatch
    /\ handler = NoEvents

PureInit ==
    /\ Idle
    /\ \/ \E body \in SegmenterBodies :
            pure = [ op |-> "formatCommentForSlack", applied |-> FALSE,
                     comment |-> [html_url |-> HtmlUrl, body |-> body] ]
       \/ \E paragraph \in Paragraphs :
            pure = [ op |-> "splitOnce", applied |-> FALSE,
                     paragraph |-> paragraph ]
       \/ \E commentBody \in DetectorTexts :
            pure = [ op |-> "isTaskFinished", applied |-> FALSE,
                     commentBody |-> commentBody ]
       \/ \E body \in SegmenterBodies, edited \in BOOLEAN,
             slackMessageTs \in {undefined, 3} :
            pure = [ op |-> "emitComment", applied |-> FALSE,
                     comment |-> [html_url |-> HtmlUrl, body |-> body],
                     hasBeenUpdated |-> edited,
                     request |-> [TriggerRequest EXCEPT
                                    !.lastCommentId = 1,
                                    !.slackMessageTs = slackMessageTs] ]

Frame ==
    UNCHANGED <<now, comments, nextId, queue, thread, eyes, changed, cycle,
                consumer, handler>>

\* formatCommentForSlack(comment)
Format ==
    /\ pure.op = "formatCommentForSlack" /\ ~pure.applied
    /\ pure' = [ op |-> pure.op, applied |-> TRUE, comment |-> pure.comment,
                 messages |-> formatCommentForSlack(pure.comment) ]
    /\ Frame

\* The head of the while loop and, when the paragraph is too long, one pass.
Split ==
    /\ pure.op = "splitOnce" /\ ~pure.applied
    /\ pure' = [ op |-> pure.op, applied |-> TRUE,
                 paragraph |-> pure.paragraph,
                 tooLong |-> Len(pure.paragraph) > maxLength - 100,
                 split |-> IF Len(pure.paragraph) > maxLength - 100
                           THEN splitOnce(pure.paragraph)
                           ELSE [breakPoint |-> -1] ]
    /\ Frame

\* isTaskFinished(commentBody)
Detect ==
    /\ pure.op = "isTaskFinished" /\ ~pure.applied
    /\ pure' = [ op |-> pure.op, applied |-> TRUE,
                 commentBody |-> pure.commentBody,
                 finished |-> isTaskFinished(pure.commentBody) ]
    /\ Frame

\* The lengths of the messages formatCommentForSlack(comment) returns.
lengthsOf(comment) ==
    LET messages == formatCommentForSlack(comment)
    IN [i \in 1..Len(messages) |-> Len(messages[i])]

\* checkProgress from const slackMessages = this.formatCommentForSlack(
\* latestComment) to the last chat call, every call succeeding, in a thread
\* whose message 3 mirrors the comment.
Emit ==
    /\ pure.op = "emitComment" /\ ~pure.applied
    /\ LET slackMessages ==
               slackMessagesOf([id |-> 1,
                                body |-> [lengths |-> lengthsOf(pure.comment)]])
           acc == [ thread |-> <<Plain("original"), Plain("issue_created"),
                                 Plain("comment")>>,
                    calls |-> <<>>, k |-> 0, removed |-> {},
                    response |-> undefined, first |-> undefined,
                    newSlackTs |-> pure.request.slackMessageTs,
                    log |-> "none" ]
       IN pure' = [ op |-> pure.op, applied |-> TRUE,
                    comment |-> pure.comment,
                    hasBeenUpdated |-> pure.hasBeenUpdated,
                    request |-> pure.request,
                    slackMessages |-> slackMessages,
                    out |-> emitComment(acc, pure.request, pure.hasBeenUpdated,
                                        slackMessages,
                                        [i \in 1..Len(slackMessages) |-> TRUE]) ]
    /\ Frame

PureNext == Format \/ Split \/ Detect \/ Emit

PureSpec == PureInit /\ [][PureNext]_vars

\* ------------------------------------------- one cycle on a long issue
\* An issue with n comments, in ascending id order, comment i created at
\* time i: the comments in edited have been edited after the creation of
\* comment n, comment n has the body last and the others the body other.
Issue(n, edited, other, last) ==
    [ i \in 1..n |->
        [ id |-> i, created_at |-> i,
          updated_at |-> IF i \in edited THEN n + 1 ELSE i,
          body |-> IF i = n THEN last ELSE other ] ]

\* The thread of a session that has mirrored one comment, as message 3.
MirroredThread ==
    <<Plain("original"), Plain("issue_created"), Plain("comment")>>

\* The numbers of comments on the issue: few, and around a page of the list.
IssueSizes == {1, 2} \cup Near(per_page)

PollInit ==
    /\ Idle
    /\ \E n \in IssueSizes, last \in Bodies, ok \in {[i \in 1..2 |-> TRUE],
                                                      [i \in 1..2 |-> FALSE]} :
       \E edited \in SUBSET ({n - 1, n, per_page} \cap 1..n),
          lastCommentId \in {undefined} \cup ({n - 1, n, per_page} \cap 1..n),
          slackMessageTs \in {undefined, Len(MirroredThread)} :
         pure = [ op |-> "checkProgress", applied |-> FALSE,
                  request |-> [TriggerRequest EXCEPT
                                 !.lastCommentId = lastCommentId,
                                 !.slackMessageTs = slackMessageTs],
                  all |-> Issue(n, edited,
                                CHOOSE b \in Bodies : ~b.finished, last),
                  ok |-> ok ]

\* checkProgress(request), when the fetch and the reactions call succeed.
Poll ==
    /\ pure.op = "checkProgress" /\ ~pure.applied
    /\ pure' = [ op |-> pure.op, applied |-> TRUE, request |-> pure.request,
                 all |-> pure.all, ok |-> pure.ok,
                 out |-> checkProgress(pure.request, now, pure.all,
                                       MirroredThread, FALSE, pure.ok, TRUE) ]
    /\ Frame

PollSpec == PollInit /\ [][Poll]_vars

\* ------------------------------------------------------ reading a cycle
\* The last cycle's record, read the way the claims speak of it.
Ran == cycle.n > 0
Req == cycle.request
Res == cycle.result
Continues == Res.shouldContinue /\ "nextRequest" \in DOMAIN Res
Terminates == ~Res.shouldContinue /\ "nextRequest" \notin DOMAIN Res
CallsOf(ops) == { i \in DOMAIN cycle.calls : cycle.calls[i].op \in ops }
ChatCalls == CallsOf({"chat.postMessage", "chat.update"})
FetchCalls == CallsOf({"getIssueComments"})
DeadlineExceeded == Req.startTime # undefined /\ cycle.t - Req.startTime > 1800000
FetchFailed == \E i \in FetchCalls : ~cycle.calls[i].ok
FetchedList == \E i \in FetchCalls : cycle.calls[i].ok
ClearedIndicator ==
    \E i \in CallsOf({"reactions.remove"}) : cycle.calls[i].ts = Req.originalMessageTs
\* Right after a cycle that fetched the list, and before anything changes on
\* GitHub, the list the cycle saw is the issue's current first page.
JustPolled == Ran /\ FetchedList /\ ~changed
SeenList == getIssueComments(comments, FALSE).list
SeenLatest == SeenList[Len(SeenList)]
SawNew ==
    /\ SeenList # <<>>
    /\ Req.lastCommentId = undefined \/ SeenLatest.id > Req.lastCommentId
SawEdited ==
    /\ SeenList # <<>>
    /\ SeenLatest.id = Req.lastCommentId
    /\ SeenLatest.updated_at > SeenLatest.created_at

\* ------------------------------------------------------------------ claims
\* C1: a cycle invoked with isFinalCheck = true that passes the deadline check
\* and fetches the comment list returns terminate, whatever the list holds and
\* whatever isTaskFinished says of the latest body.
C1_FinalPassAlwaysTerminates ==
    (Ran /\ Req.isFinalCheck /\ ~DeadlineExceeded /\ FetchedList) => Terminates

\* C2: a cycle in POLLING that processes a new or edited latest comment whose
\* body is finished does not terminate: it clears the eyes reaction of the
\* original message (when the request names one) and continues with a next
\* request that has isFinalCheck = true and lastCommentId = the latest id.
C2_FinishedInPollingSchedulesFinalPass ==
    ( /\ JustPolled /\ ~DeadlineExceeded /\ ~Req.isFinalCheck
      /\ SawNew \/ SawEdited
      /\ SeenLatest.body.finished )
    => /\ Continues
       /\ Res.nextRequest.isFinalCheck
       /\ Res.nextRequest.lastCommentId = SeenLatest.id
       /\ Req.originalMessageTs # undefined => ClearedIndicator

C2_Witness ==
    /\ JustPolled /\ ~Req.isFinalCheck /\ SawEdited
    /\ SeenLatest.body.finished
    /\ Req.originalMessageTs # undefined /\ ClearedIndicator
    /\ Continues /\ Res.nextRequest.isFinalCheck

\* C3: a cycle run on the very list the previous cycle saw, with the state the
\* previous cycle returned, makes no chat call (no post, no edit).
C3_SameListNoNotification ==
    (Ran /\ cycle.sameList /\ FetchedList) => ChatCalls = {}

\* C4: a cycle that runs more than 30 minutes after the session started
\* returns terminate, so no session is re-queued past the deadline.
C4_TerminatesAfterThirtyMinutes ==
    (Ran /\ cycle.t - T0 > 1800000) => Terminates

\* C5: a cycle whose now - startTime exceeds 30 minutes posts the timeout
\* notice, clears the eyes reaction of the original message (when the request
\* names one) and terminates, and never calls getIssueComments.
C5_DeadlineBeforeFetch ==
    (Ran /\ DeadlineExceeded)
    => /\ Terminates
       /\ FetchCalls = {}
       /\ Cardinality(ChatCalls) = 1
       /\ \A i \in ChatCalls : i = 1 /\ cycle.calls[i].text = TimeoutNotice
       /\ Req.originalMessageTs # undefined => ClearedIndicator

C5_Witness ==
    /\ Ran /\ DeadlineExceeded /\ Req.isFinalCheck /\ comments # <<>>
    /\ Terminates /\ ClearedIndicator

\* C6: the next request's lastCommentId is never smaller than the request's,
\* and is set whenever the request's is, also when the latest comment of the
\* list has a smaller id than lastCommentId.
C6_LastCommentIdMonotonic ==
    (Ran /\ Continues)
    => /\ Res.nextRequest.lastCommentId >= Req.lastCommentId
       /\ Req.lastCommentId # undefined
            => Res.nextRequest.lastCommentId # undefined

C6_Witness ==
    /\ JustPolled /\ Continues /\ SeenList # <<>>
    /\ SeenLatest.id < Req.lastCommentId
    /\ Res.nextRequest.lastCommentId = Req.lastCommentId

\* C7: every cycle returns either continue with a next request or terminate
\* without one.
C7_ExactlyOneOutcome ==
    Ran => /\ Continues \/ Terminates
           /\ ~(Continues /\ Terminates)

C7_Witness ==
    /\ Ran /\ Continues /\ ~Terminates
    /\ Res.nextRequest.attemptCount = 2

\* C8: a cycle terminates only when the deadline was exceeded, the fetch
\* failed, or the request was the final check.
C8_TerminateOnlyOnThreePaths ==
    (Ran /\ ~Res.shouldContinue)
    => DeadlineExceeded \/ FetchFailed \/ Req.isFinalCheck

C8_Witness ==
    /\ Ran /\ ~Res.shouldContinue
    /\ ~DeadlineExceeded /\ ~FetchFailed /\ Req.isFinalCheck

\* C9: in every cycle that continues, the next request's attemptCount is the
\* request's plus one.
C9_AttemptCountIncrements ==
    (Ran /\ Continues)
    => Res.nextRequest.attemptCount = Req.attemptCount + 1

C9_Witness ==
    /\ Ran /\ Continues /\ ChatCalls # {}
    /\ Req.attemptCount = 1 /\ Res.nextRequest.attemptCount = 2

\* C10: when getIssueComments returns an error, the cycle sends one failure
\* notice, fetches no second time and terminates without a next request.
C10_FetchFailureIsTerminal ==
    (Ran /\ FetchFailed)
    => /\ Terminates
       /\ Cardinality(FetchCalls) = 1
       /\ Cardinality(ChatCalls) = 1
       /\ \A i \in ChatCalls : cycle.calls[i].text = FailureNotice

C10_Witness ==
    /\ Ran /\ FetchFailed /\ Terminates
    /\ Req.attemptCount > 0 /\ queue = <<>>
\* C11: a cycle within the deadline whose fetch returns an empty list makes no
\* chat call and removes no reaction, returns continue, and its next request is
\* the request it was given with attemptCount one higher and nothing else
\* changed.
C11_EmptyListOnlyCounts ==
    (JustPolled /\ ~DeadlineExceeded /\ SeenList = <<>>) =>
        /\ ChatCalls = {}
        /\ CallsOf({"reactions.remove"}) = {}
        /\ Continues
        /\ Res.nextRequest.attemptCount = Req.attemptCount + 1
        /\ \A f \in DOMAIN Req \ {"attemptCount"} : Res.nextRequest[f] = Req[f]

\* An empty list seen by a session that has already mirrored a comment.
C11_Witness ==
    /\ JustPolled /\ ~DeadlineExceeded /\ SeenList = <<>>
    /\ Req.lastCommentId # undefined /\ Req.slackMessageTs # undefined
    /\ Continues

\* C12: the latest comment of a fetched list is logged as created exactly when
\* lastCommentId is unset or smaller than its id, whatever its timestamps; as
\* updated exactly when its id is lastCommentId and updated_at > created_at;
\* and otherwise the cycle classifies nothing and makes no chat call.
C12_IdentifierPrecedence ==
    (JustPolled /\ ~DeadlineExceeded /\ SeenList # <<>>) =>
        /\ cycle.log = "created" <=>
             (Req.lastCommentId = undefined \/ SeenLatest.id > Req.lastCommentId)
        /\ cycle.log = "updated" <=>
             /\ SeenLatest.id = Req.lastCommentId
             /\ SeenLatest.updated_at > SeenLatest.created_at
        /\ cycle.log = "none" => ChatCalls = {}

\* A comment with a greater id that has been edited is classified new.
C12_Witness ==
    /\ JustPolled /\ ~DeadlineExceeded /\ SeenList # <<>>
    /\ Req.lastCommentId # undefined
    /\ SeenLatest.id > Req.lastCommentId
    /\ SeenLatest.updated_at > SeenLatest.created_at
    /\ cycle.log = "created"

\* C13: a cycle that sees a new latest comment makes no chat.update call.
C13_NewCommentNeverEdits ==
    (JustPolled /\ ~DeadlineExceeded /\ SawNew) => CallsOf({"chat.update"}) = {}

\* A new comment posted by a session that holds the ts of an earlier message.
C13_Witness ==
    /\ JustPolled /\ ~DeadlineExceeded /\ SawNew
    /\ Req.slackMessageTs # undefined
    /\ \E i \in CallsOf({"chat.postMessage"}) : cycle.calls[i].ok

\* The first chat call of the last cycle.
FirstChat == CHOOSE i \in ChatCalls : \A j \in ChatCalls : i <= j

\* C14: after a cycle that emits a new or edited comment and continues, the
\* next request's lastCommentId is the latest comment's id, and when the first
\* message was posted as a new thread message the next request's slackMessageTs
\* is the ts of that message.
C14_NextRecordsFirstChunk ==
    (JustPolled /\ ~DeadlineExceeded /\ (SawNew \/ SawEdited) /\ Continues) =>
        /\ Res.nextRequest.lastCommentId = SeenLatest.id
        /\ (ChatCalls # {}
              /\ cycle.calls[FirstChat].op = "chat.postMessage"
              /\ cycle.calls[FirstChat].ok)
             => Res.nextRequest.slackMessageTs = cycle.calls[FirstChat].response

\* Some chat call of the last cycle failed.
SinkFailed == \E i \in ChatCalls : ~cycle.calls[i].ok

\* The decision of a cycle, from what it was given and what it saw.
NormalDecisionTerminates ==
    \/ DeadlineExceeded
    \/ FetchFailed
    \/ /\ Req.isFinalCheck
       /\ SawNew \/ SawEdited
       /\ ~SeenLatest.body.finished

\* C15 as stated: a failed chat call leaves the decision as it is without the
\* failure, and a continuing cycle's next slackMessageTs is the request's.
C15_SinkFailureKeepsRef ==
    (Ran /\ ~changed /\ SinkFailed) =>
        /\ Terminates <=> NormalDecisionTerminates
        /\ Continues <=> ~NormalDecisionTerminates
        /\ Continues => Res.nextRequest.slackMessageTs = Req.slackMessageTs

\* C15, amended: a failed chat call leaves the decision as it is without the
\* failure; a continuing cycle's next slackMessageTs is the request's unless
\* the cycle posted the first message of a new comment before a later post
\* failed.
C15_SinkFailureKeepsRefUnlessFirstPosted ==
    (Ran /\ ~changed /\ SinkFailed) =>
        /\ Terminates <=> NormalDecisionTerminates
        /\ Continues <=> ~NormalDecisionTerminates
        /\ (Continues /\ ~(SawNew /\ cycle.calls[FirstChat].ok))
             => Res.nextRequest.slackMessageTs = Req.slackMessageTs

\* The post of a new comment's first message fails in a session that holds the
\* ts of an earlier message, and the session goes on with that ts.
C15_Witness ==
    /\ JustPolled /\ ~DeadlineExceeded /\ SawNew /\ Continues
    /\ ~cycle.calls[FirstChat].ok
    /\ Req.slackMessageTs # undefined
    /\ Res.nextRequest.slackMessageTs = Req.slackMessageTs

\* ------------------------------------------- reading a function's result
Formatted == pure.op = "formatCommentForSlack" /\ pure.applied
SplitTried == pure.op = "splitOnce" /\ pure.applied
Detected == pure.op = "isTaskFinished" /\ pure.applied

\* The characters of s that are not white space, in order.
NonWhiteSpace(s) == SelectSeq(s, LAMBDA c : c \notin {" ", "\n", "\t", "\r"})

\* The messages one after the other, from message i on.
RECURSIVE Concatenated(_, _)
Concatenated(messages, i) ==
    IF i > Len(messages) THEN <<>>
    ELSE messages[i] \o Concatenated(messages, i + 1)

\* p occurs in t at offset k.
OccursAt(p, t, k) ==
    /\ k + Len(p) <= Len(t)
    /\ \A i \in 1..Len(p) : t[k + i] = p[i]

\* The lower-case text p occurs in t at offset k, whatever the case of t.
OccursAtAnyCase(p, t, k) ==
    /\ k + Len(p) <= Len(t)
    /\ \A i \in 1..Len(p) :
          \/ t[k + i] = p[i]
          \/ \E l \in 1..26 : t[k + i] = UpperCase[l] /\ p[i] = LowerCase[l]

\* How often the link occurs in the messages.
LinkOccurrences(messages, link) ==
    Cardinality({ ik \in UNION { {i} \X (0..Len(messages[i]))
                                 : i \in 1..Len(messages) } :
                    /\ ik[2] < Len(messages[ik[1]])
                    /\ messages[ik[1]][ik[2] + 1] = link[1]
                    /\ OccursAt(link, messages[ik[1]], ik[2]) })

\* C16: every message formatCommentForSlack returns is at least 1 and at most
\* 3900 characters long, and it returns at least one message.
C16_ChunksWithinLimit ==
    Formatted =>
        /\ Len(pure.messages) >= 1
        /\ \A i \in 1..Len(pure.messages) :
              Len(pure.messages[i]) >= 1 /\ Len(pure.messages[i]) <= 3900

\* A body cut into several messages, one of them of exactly 3900 characters.
C16_Witness ==
    /\ Formatted
    /\ Len(pure.messages) >= 2
    /\ \E i \in 1..Len(pure.messages) : Len(pure.messages[i]) = 3900

\* The split point the preference order period, newline, space gives: the last
\* such character at an index in 1..limit, of the first kind that has one,
\* else limit.
PreferredSplit(paragraph, limit) ==
    LET last(c) == lastIndexOf(paragraph, c, limit) IN
    IF last(".") > 0 THEN last(".")
    ELSE IF last("\n") > 0 THEN last("\n")
    ELSE IF last(" ") > 0 THEN last(" ")
    ELSE limit

\* C17 as stated: a paragraph longer than the limit is split at the point the
\* preference order gives, the limit being read as 3900 or as the 3800 from
\* which the loop scans.
C17_SplitByPreference ==
    SplitTried =>
        \E limit \in {3900, 3800} :
            /\ pure.tooLong <=> Len(pure.paragraph) > limit
            /\ pure.tooLong =>
                 pure.split.breakPoint = PreferredSplit(pure.paragraph, limit)

\* C17, amended: a paragraph is split exactly when it is longer than 3800
\* characters, at the greatest index in 1..3800 that holds a period, a newline
\* or a space, whichever kind it is, and at 3800 when no such index exists.
C17_SplitAtLastBoundary ==
    SplitTried =>
        /\ pure.tooLong <=> Len(pure.paragraph) > 3800
        /\ pure.tooLong =>
             LET boundary(i) == pure.paragraph[i + 1] \in {".", "\n", " "}
                 bp == pure.split.breakPoint
             IN IF \E i \in 1..3800 : boundary(i)
                THEN /\ bp \in 1..3800
                     /\ boundary(bp)
                     /\ \A i \in (bp + 1)..3800 : ~boundary(i)
                ELSE bp = 3800

\* A paragraph split at a space that comes after its last period.
C17_Witness ==
    /\ SplitTried /\ pure.tooLong
    /\ pure.paragraph[pure.split.breakPoint + 1] = " "
    /\ \E i \in 1..(pure.split.breakPoint - 1) : pure.paragraph[i + 1] = "."

\* C18: when formatCommentForSlack returns several messages, their characters
\* other than white space, in message order, are those of the body, in order,
\* followed by those of the link.
C18_RoundTrip ==
    (Formatted /\ Len(pure.messages) > 1) =>
        NonWhiteSpace(Concatenated(pure.messages, 1))
          = NonWhiteSpace(pure.comment.body)
              \o NonWhiteSpace(linkOf(pure.comment))

\* A body with a period, cut into several messages.
C18_Witness ==
    /\ Formatted /\ Len(pure.messages) > 2
    /\ \E i \in 1..Len(pure.comment.body) : pure.comment.body[i] = "."
    /\ \E i \in 1..Len(pure.comment.body) : pure.comment.body[i] = "c"

\* C19: when body.length + link.length + 4 < 3900 the result is the one
\* message body, blank line, link; otherwise the link occurs once in the
\* result, at the end of the last message: after the message's text and a
\* blank line when that text's length + link.length + 4 < 3900, and as a
\* message of its own when the text before it is too long for that or when
\* there is no text.
C19_LinkPlacement ==
    Formatted =>
        LET body == pure.comment.body
            link == linkOf(pure.comment)
            m == pure.messages
            n == Len(m)
        IN IF Len(body) + Len(link) + 4 < 3900
           THEN m = << body \o <<"\n", "\n">> \o link >>
           ELSE /\ n >= 1
                /\ LinkOccurrences(m, link) = 1
                /\ Len(m[n]) >= Len(link)
                /\ OccursAt(link, m[n], Len(m[n]) - Len(link))
                /\ LET text == SubSeq(m[n], 1, Len(m[n]) - Len(link))
                   IN IF text = <<>>
                      THEN n = 1 \/ Len(m[n - 1]) + Len(link) + 4 >= 3900
                      ELSE /\ Len(text) >= 3
                           /\ SubSeq(text, Len(text) - 1, Len(text))
                                = <<"\n", "\n">>
                           /\ (Len(text) - 2) + Len(link) + 4 < 3900

\* A body too long for one message whose link is a message of its own,
\* after a message it does not fit in.
C19_Witness ==
    /\ Formatted
    /\ Len(pure.comment.body) + Len(linkOf(pure.comment)) + 4 >= 3900
    /\ Len(pure.messages) >= 2
    /\ pure.messages[Len(pure.messages)] = linkOf(pure.comment)

C21_IndicatorClearedAtTermination ==
    (Ran /\ Terminates /\ Req.originalMessageTs # undefined) => cycle.cleared

\* C27: the next request of a continuing cycle has the request's startTime,
\* issueNumber, channel, threadId and originalMessageTs.
C27_SessionFieldsKept ==
    (Ran /\ Continues) =>
        \A f \in {"startTime", "issueNumber", "channel", "threadId",
                  "originalMessageTs"} : Res.nextRequest[f] = Req[f]

\* A continuing cycle that mirrored a comment for a request with startTime and
\* originalMessageTs.
C27_Witness ==
    /\ Ran /\ Continues /\ ChatCalls # {}
    /\ Req.startTime # undefined /\ Req.originalMessageTs # undefined
    /\ Res.nextRequest.lastCommentId # Req.lastCommentId

\* The chat calls of the last cycle, in call order.
ChatSequence ==
    SelectSeq(cycle.calls,
              LAMBDA c : c.op \in {"chat.postMessage", "chat.update"})

\* C28: a cycle that sees the latest comment edited in place, with N messages,
\* while the request holds slackMessageTs makes exactly N chat calls: chat.update
\* of slackMessageTs with message 1, then chat.postMessage of messages 2..N in
\* order; and its next request holds the same slackMessageTs.
C28_EditThenPosts ==
    (JustPolled /\ ~DeadlineExceeded /\ SawEdited
       /\ Req.slackMessageTs # undefined) =>
        LET N == Len(SeenLatest.body.lengths) IN
        /\ Len(ChatSequence) = N
        /\ \A i \in 1..N :
              /\ ChatSequence[i].text.kind = "comment"
              /\ ChatSequence[i].text.comment = SeenLatest.id
              /\ ChatSequence[i].text.index = i
              /\ ChatSequence[i].op = IF i = 1 THEN "chat.update"
                                      ELSE "chat.postMessage"
        /\ ChatSequence[1].ts = Req.slackMessageTs
        /\ Continues => Res.nextRequest.slackMessageTs = Req.slackMessageTs

\* An edited comment of two messages, mirrored while slackMessageTs is held.
C28_Witness ==
    /\ JustPolled /\ ~DeadlineExceeded /\ SawEdited
    /\ Req.slackMessageTs # undefined
    /\ Len(SeenLatest.body.lengths) = 2
    /\ Len(ChatSequence) = 2
    /\ Continues

\* ------------------------------------------------------ the queue handler
\* Bounds: the messages of a batch, and the retry calls followed.
MaxBatch == 2
MaxRetries == 2

\* The first request of a second session of the channel.
OtherRequest ==
    [ TriggerRequest EXCEPT !.issueNumber = issueNumber + 1,
                            !.threadId = OriginalTs + 1 ]

\* What GitHub lists for an issue: the second session's issue has no comments,
\* the first one's has none or one, which says that the task is finished or
\* does not.
ListsOf(issue) ==
    IF issue = issueNumber
    THEN {<<>>} \cup { Issue(1, {}, body, body) : body \in Bodies }
    ELSE {<<>>}

\* Mutant: the successor is sent before the cycle, whatever it returns.
processMessage_sendsFirst(payload, out, threw) ==
    IF threw = "checkProgress"
    THEN [ calls |-> <<"send", "checkProgress", "throw", "retry">>,
           sent |-> <<payload>> ]
    ELSE [ calls |-> <<"send", "checkProgress", "ack">>, sent |-> <<payload>> ]

\* Mutant: the message is acknowledged before its successor is sent.
processMessage_acksFirst(payload, out, threw) ==
    IF threw = "checkProgress"
    THEN [ calls |-> <<"checkProgress", "throw", "retry">>, sent |-> <<>> ]
    ELSE IF out.result.shouldContinue /\ "nextRequest" \in DOMAIN out.result
    THEN IF threw = "send"
         THEN [ calls |-> <<"checkProgress", "ack", "send", "throw", "retry">>,
                sent |-> <<>> ]
         ELSE [ calls |-> <<"checkProgress", "ack", "send">>,
                sent |-> <<out.result.nextRequest>> ]
    ELSE [ calls |-> <<"checkProgress", "ack">>, sent |-> <<>> ]

\* Mutant: the message of a cycle that returned terminate is sent again.
processMessage_resendsOnTerminate(payload, out, threw) ==
    IF threw = "checkProgress"
    THEN [ calls |-> <<"checkProgress", "throw", "retry">>, sent |-> <<>> ]
    ELSE IF out.result.shouldContinue /\ "nextRequest" \in DOMAIN out.result
    THEN IF threw = "send"
         THEN [ calls |-> <<"checkProgress", "send", "throw", "retry">>,
                sent |-> <<>> ]
         ELSE [ calls |-> <<"checkProgress", "send", "ack">>,
                sent |-> <<out.result.nextRequest>> ]
    ELSE [ calls |-> <<"checkProgress", "send", "ack">>, sent |-> <<payload>> ]

\* The body of the for loop, for one message: the calls it makes, in order
\* ("throw" after the call that threw), and the requests sent to the queue.
\* out is what checkProgress(payload) does when it returns; threw is the call
\* that throws, if one does.
processMessage(payload, out, threw) ==
    IF threw = "checkProgress"
    THEN [ calls |-> <<"checkProgress", "throw", "retry">>, sent |-> <<>> ]
    ELSE IF out.result.shouldContinue /\ "nextRequest" \in DOMAIN out.result
    THEN IF threw = "send"
         THEN [ calls |-> <<"checkProgress", "send", "throw", "retry">>,
                sent |-> <<>> ]
         ELSE [ calls |-> <<"checkProgress", "send", "ack">>,
                sent |-> <<out.result.nextRequest>> ]
    ELSE [ calls |-> <<"checkProgress", "ack">>, sent |-> <<>> ]

\* Two sessions have been started; the handler is not running.
QueueInit ==
    /\ now = T0
    /\ comments = <<>>
    /\ nextId = 1
    /\ queue \in {<<TriggerRequest>>, <<TriggerRequest, OtherRequest>>,
                  <<OtherRequest, FullRequest>>}
    /\ thread = <<Plain("original"), Plain("issue_created")>>
    /\ eyes = {OriginalTs}
    /\ changed = FALSE
    /\ cycle = [n |-> 0]
    /\ pure = [op |-> "none"]
    /\ handler = NoEvents
    /\ consumer = [ pc |-> "idle", batch |-> <<>>, i |-> 1, done |-> <<>>,
                    retries |-> 0, ended |-> {}, late |-> {} ]

\* The queue invokes the handler with a batch of its messages.
Deliver ==
    /\ consumer.pc = "idle"
    /\ \E n \in 1..MaxBatch :
         /\ n <= Len(queue)
         /\ \A j \in 1..n : queue[j].attemptCount < MaxAttempts
         /\ consumer' = [ pc |-> "loop", batch |-> SubSeq(queue, 1, n),
                          i |-> 1, done |-> <<>>,
                          retries |-> consumer.retries,
                          ended |-> consumer.ended, late |-> consumer.late ]
         /\ queue' = SubSeq(queue, n + 1, Len(queue))
    /\ UNCHANGED <<now, comments, nextId, thread, eyes, changed, cycle, pure,
                   handler>>

\* One iteration of for (const message of batch.messages). A checkProgress
\* call that throws has made none of its calls or all of them. ended keeps
\* the sessions of which a cycle has returned terminate, late those of which
\* a cycle was run after that.
Process ==
    /\ consumer.pc = "loop"
    /\ consumer.i <= Len(consumer.batch)
    /\ LET payload == consumer.batch[consumer.i] IN
       \E all \in ListsOf(payload.issueNumber),
          ok \in {[i \in 1..2 |-> TRUE], [i \in 1..2 |-> FALSE]},
          threw \in {"none", "checkProgress", "send"}, acted \in BOOLEAN,
          fetchFails \in BOOLEAN :
         LET out == checkProgress(payload, now, all, thread, fetchFails, ok,
                                  TRUE)
             did == processMessage(payload, out, threw)
             retried == did.calls[Len(did.calls)] = "retry"
         IN /\ threw # "none" => consumer.retries < MaxRetries
            /\ threw = "send" =>
                 out.result.shouldContinue /\ "nextRequest" \in DOMAIN out.result
            /\ threw # "checkProgress" => acted
            /\ thread' = IF acted THEN out.thread ELSE thread
            /\ eyes' = IF acted THEN eyes \ out.removed ELSE eyes
            /\ queue' = queue \o did.sent
            /\ consumer' =
                 [ consumer EXCEPT
                     !.i = @ + 1,
                     !.done = Append(@, [ calls |-> did.calls,
                                          sent |-> did.sent,
                                          threw |-> threw,
                                          result |-> out.result ]),
                     !.retries = IF retried THEN @ + 1 ELSE @,
                     !.ended = IF threw # "checkProgress"
                                  /\ ~out.result.shouldContinue
                               THEN @ \cup {payload.issueNumber} ELSE @,
                     !.late = IF payload.issueNumber \in consumer.ended
                              THEN @ \cup {payload.issueNumber} ELSE @ ]
    /\ UNCHANGED <<now, comments, nextId, changed, cycle, pure, handler>>

\* The handler returns: the queue delivers again the messages that were
\* retried and not acknowledged.
Return ==
    /\ consumer.pc = "loop"
    /\ consumer.i > Len(consumer.batch)
    /\ LET again == SelectSeq([j \in DOMAIN consumer.batch |-> j],
                               LAMBDA j :
                                 /\ \E k \in DOMAIN consumer.done[j].calls :
                                       consumer.done[j].calls[k] = "retry"
                                 /\ \A k \in DOMAIN consumer.done[j].calls :
                                       consumer.done[j].calls[k] # "ack")
       IN queue' = queue \o [k \in DOMAIN again |-> consumer.batch[again[k]]]
    /\ consumer' = [consumer EXCEPT !.pc = "idle"]
    /\ UNCHANGED <<now, comments, nextId, thread, eyes, changed, cycle, pure,
                   handler>>

QueueNext == Deliver \/ Process \/ Return

QueueSpec == QueueInit /\ [][QueueNext]_vars

\* ---------------------------------------------- reading a polled issue
Polled == pure.op = "checkProgress" /\ pure.applied

\* The comment ids of the chat calls the polled cycle made.
MirroredIds ==
    { pure.out.calls[i].text.comment :
        i \in { j \in DOMAIN pure.out.calls :
                  pure.out.calls[j].op \in {"chat.postMessage", "chat.update"} } }

\* The highest id among the comments of the issue.
HighestId ==
    CHOOSE m \in { pure.all[i].id : i \in DOMAIN pure.all } :
        \A i \in DOMAIN pure.all : pure.all[i].id <= m

\* C22: a cycle that classifies the latest comment as created or updated
\* mirrors the comment with the highest id of the issue and records that id as
\* lastCommentId, however many comments the issue has.
C22_MirrorsHighestId ==
    (Polled /\ pure.out.log # "none") =>
        /\ MirroredIds = {HighestId}
        /\ pure.out.result.shouldContinue =>
             pure.out.result.nextRequest.lastCommentId = HighestId

\* C29: what a cycle does and returns is the same when any comment of the
\* fetched list other than its last one has another body or another
\* updated_at.
C29_OnlyLatestInspected ==
    Polled =>
        LET list == getIssueComments(pure.all, FALSE).list IN
        \A i \in 1..(Len(list) - 1) :
           \A body \in Bodies,
              updated_at \in {pure.all[i].created_at, Len(pure.all) + 1} :
              checkProgress(pure.request,
                            now,
                            [pure.all EXCEPT
                               ![i].body = body,
                               ![i].updated_at = updated_at],
                            MirroredThread, FALSE, pure.ok, TRUE)
                = pure.out

\* A cycle on an issue of several comments that finds nothing to mirror while
\* an earlier comment has been edited.
C29_Witness ==
    /\ Polled
    /\ Len(pure.all) = 2
    /\ pure.all[1].updated_at > pure.all[1].created_at
    /\ pure.request.lastCommentId = 2
    /\ pure.out.log = "none"
    /\ pure.out.result.nextRequest.lastCommentId = 2

\* ------------------------------------------------- reading the handler
\* The places of a call among the calls made for message j of the batch.
Places(j, call) ==
    { k \in DOMAIN consumer.done[j].calls : consumer.done[j].calls[k] = call }

\* The cycle of message j returned, and returned continue with a request.
Returned(j) == consumer.done[j].threw # "checkProgress"
ReturnedContinue(j) ==
    /\ Returned(j)
    /\ consumer.done[j].result.shouldContinue
    /\ "nextRequest" \in DOMAIN consumer.done[j].result

\* The polls of a session that are pending or running: its messages in the
\* queue, and the messages of the batch that the loop has not reached, is
\* at, or has handed back with retry.
PollsOf(issue) ==
    Len(SelectSeq(queue, LAMBDA m : m.issueNumber = issue))
    + IF consumer.pc = "loop"
      THEN Cardinality({ j \in DOMAIN consumer.batch :
                           /\ consumer.batch[j].issueNumber = issue
                           /\ \/ j > Len(consumer.done)
                              \/ Places(j, "ack") = {} })
      ELSE 0

\* C23: a session never has more than one poll pending or running; for each
\* message the handler sends at most one request, sends it only after
\* checkProgress has returned continue, and it is the returned nextRequest;
\* it sends none when the cycle returned terminate.
C23_OnePollPerSession ==
    /\ \A m \in { TriggerRequest, OtherRequest } : PollsOf(m.issueNumber) <= 1
    /\ \A j \in DOMAIN consumer.done :
         /\ Len(consumer.done[j].sent) <= 1
         /\ Cardinality(Places(j, "send")) <= 1
         /\ Places(j, "send") # {} =>
              /\ ReturnedContinue(j)
              /\ \A k \in Places(j, "send") :
                    \E c \in Places(j, "checkProgress") : c < k
         /\ consumer.done[j].sent # <<>> =>
              /\ ReturnedContinue(j)
              /\ consumer.done[j].sent = <<consumer.done[j].result.nextRequest>>
         /\ ~ReturnedContinue(j) => consumer.done[j].sent = <<>>

\* In a batch of two sessions, the first message's cycle has continued and
\* its successor waits in the queue while the second message is not handled.
C23_Witness ==
    /\ consumer.pc = "loop"
    /\ Len(consumer.batch) = 2
    /\ Len(consumer.done) = 1
    /\ consumer.done[1].sent # <<>>
    /\ \E k \in DOMAIN queue : queue[k] = consumer.done[1].result.nextRequest
    /\ PollsOf(consumer.batch[1].issueNumber) = 1
    /\ PollsOf(consumer.batch[2].issueNumber) = 1

\* C30: for each message handled, the handler calls exactly one of ack and
\* retry, as its last call; ack comes after checkProgress has returned and,
\* if it returned continue, after the send of the successor; when
\* checkProgress or the send throws the call is retry; and the handler
\* handles every message of the batch before it returns.
C30_AckOrRetry ==
    /\ \A j \in DOMAIN consumer.done :
         LET calls == consumer.done[j].calls IN
         /\ Cardinality(Places(j, "ack") \cup Places(j, "retry")) = 1
         /\ calls[Len(calls)] \in {"ack", "retry"}
         /\ Places(j, "ack") # {} =>
              /\ Returned(j)
              /\ Places(j, "throw") = {}
              /\ \E c \in Places(j, "checkProgress") :
                    \A a \in Places(j, "ack") : c < a
              /\ ReturnedContinue(j) =>
                   /\ consumer.done[j].sent =
                        <<consumer.done[j].result.nextRequest>>
                   /\ \E k \in Places(j, "send") :
                         \A a \in Places(j, "ack") : k < a
         /\ consumer.done[j].threw # "none" =>
              /\ Places(j, "retry") # {}
              /\ Places(j, "ack") = {}
    /\ consumer.pc = "loop" => Len(consumer.done) = consumer.i - 1
    /\ consumer.pc = "idle" => Len(consumer.done) = Len(consumer.batch)

\* The first message of a batch was retried after a throw and the second
\* one was handled and acknowledged.
C30_Witness ==
    /\ Len(consumer.batch) = 2
    /\ Len(consumer.done) = 2
    /\ consumer.done[1].threw # "none"
    /\ Places(1, "retry") # {}
    /\ Places(2, "ack") # {}
    /\ consumer.done[2].sent # <<>>

\* ----------------------------------------------- the Slack event handlers
\* Bounds: the events delivered, the threads of the channel, and the values
\* that expire.
MaxEvents == 3
MaxThreads == 2
MaxExpiries == 1

\* private kvPrefix = "github_issue:"
kvPrefix == "github_issue:"

\* What KV.get returns for a key without a value.
null == <<>>

\* Mutant: the thread of a message is the message.
threadIdOf_ts(thread_ts, ts) == ts

\* const threadId = thread_ts || ts
threadIdOf(thread_ts, ts) == IF thread_ts # undefined THEN thread_ts ELSE ts

\* getKVKey: the parts of `${this.kvPrefix}${channel}:${threadId}`
getKVKey(channel, threadId) == <<kvPrefix, channel, ":", threadId>>

\* The key of the message event handler:
\* `github_issue:${payload.channel}:${payload.thread_ts}`
kvKeyOf(payload) == <<"github_issue:", payload.channel, ":", payload.thread_ts>>

\* JSON.stringify(kvData), as the members of the object in order, and
\* JSON.parse of it; of issueId, issueUrl and createdAt no claim speaks.
stringify(kvData) ==
    << <<"issueNumber", kvData.issueNumber>>, <<"channel", kvData.channel>>,
       <<"threadId", kvData.threadId>> >>

member(text, name) == text[CHOOSE i \in DOMAIN text : text[i][1] = name][2]

parse(text) ==
    [ issueNumber |-> member(text, "issueNumber"),
      channel |-> member(text, "channel"),
      threadId |-> member(text, "threadId") ]

\* env.KV.get(key) and env.KV.put(key, value) on the pairs of the namespace.
KVget(kv, key) ==
    IF \E r \in kv : r.key = key
    THEN (CHOOSE r \in kv : r.key = key).value
    ELSE null

KVput(kv, key, value) ==
    { r \in kv : r.key # key } \cup { [key |-> key, value |-> value] }

\* Mutant: the catch block only says the error.
catchBlock_onlySays(calls) == calls \o <<"throw", "say:error">>

\* The calls of a handler whose last call threw, with those of the catch
\* block of handleMention and handleReply: reactions.remove in a try of its
\* own, then say.
catchBlock(calls) == calls \o <<"throw", "reactions.remove", "say:error">>

\* A handler that Slack has just invoked for an event of the thread with the
\* root message root.
Invoked(op, pc, root, thread_ts, ts, text, subtype) ==
    [ op |-> op, pc |-> pc, root |-> root, channel |-> "C1",
      thread_ts |-> thread_ts, ts |-> ts, text |-> text, subtype |-> subtype,
      key |-> null, held |-> null, number |-> undefined, calls |-> <<>> ]

\* The user id of the bot in the workspace, and the bindings of the worker
\* with SLACK_BOT_USER_ID set to it and without SLACK_BOT_USER_ID.
BotUserId == <<"U", "1">>
Configured == [SLACK_BOT_USER_OAUTH_TOKEN |-> "xoxb", SLACK_BOT_USER_ID |-> BotUserId]
Unconfigured == [SLACK_BOT_USER_OAUTH_TOKEN |-> "xoxb"]

\* The text of a mention of a user, and the texts of messages: one without a
\* mention, one that mentions the bot, one that mentions somebody else.
mentionOf(id) == <<"<", "@">> \o id \o <<">">>
PlainText == <<"h", "i">>
MentionText == mentionOf(BotUserId) \o <<" ">> \o PlainText
OtherMentionText == mentionOf(<<"U", "2">>) \o <<" ">> \o PlainText

\* `<@${env.SLACK_BOT_USER_ID || ""}>`
botMention(env) ==
    mentionOf(IF "SLACK_BOT_USER_ID" \in DOMAIN env
              THEN env.SLACK_BOT_USER_ID ELSE <<>>)

HandlerInit ==
    /\ now = T0
    /\ comments = <<>>
    /\ nextId = 1
    /\ queue = <<>>
    /\ thread = <<>>
    /\ eyes = {}
    /\ changed = FALSE
    /\ cycle = [n |-> 0]
    /\ pure = [op |-> "none"]
    /\ consumer = NoBatch
    /\ handler = [ kv |-> {}, issues |-> <<>>, comments |-> <<>>,
                   sessions |-> <<>>, procs |-> <<>>,
                   expired |-> 0, overlap |-> FALSE, env |-> Configured ]

Others == UNCHANGED <<now, comments, nextId, queue, thread, eyes, changed,
                      cycle, pure, consumer>>

Running(op, pc) ==
    { p \in DOMAIN handler.procs :
        handler.procs[p].op = op /\ handler.procs[p].pc = pc }

\* Slack delivers an app_mention event: the mention is the root message of a
\* thread or a message within it. Slack delivers an event again when the
\* answer to it is late, so the same message may come twice.
AppMention ==
    /\ Len(handler.procs) < MaxEvents
    /\ \E root \in 1..MaxThreads, within \in BOOLEAN :
         handler' =
           [ handler EXCEPT
               !.procs = Append(@,
                   Invoked("handleMention", "get", root,
                           IF within THEN root ELSE undefined,
                           IF within THEN MaxThreads + Len(handler.procs) + 1
                                     ELSE root,
                           MentionText, "none")),
               !.overlap = @ \/ \E q \in DOMAIN handler.procs :
                                   /\ handler.procs[q].op = "handleMention"
                                   /\ handler.procs[q].root = root
                                   /\ handler.procs[q].pc # "done" ]
    /\ Others

\* Slack delivers a message event for a message within a thread that
\* mentions nobody.
MessageEvent ==
    /\ Len(handler.procs) < MaxEvents
    /\ \E root \in 1..MaxThreads :
         handler' =
           [ handler EXCEPT
               !.procs = Append(@, Invoked("message", "lookup", root, root,
                                           MaxThreads + Len(handler.procs) + 1,
                                           PlainText, "none")) ]
    /\ Others

\* handleMention: reactions.add and KV.get(kvKey).
MentionGet ==
    /\ \E p \in Running("handleMention", "get"), throws \in BOOLEAN :
         LET proc == handler.procs[p]
             kvKey == getKVKey(proc.channel,
                               threadIdOf(proc.thread_ts, proc.ts))
             existingIssue == KVget(handler.kv, kvKey)
         IN handler' =
              [ handler EXCEPT !.procs[p] =
                  IF throws
                  THEN [ proc EXCEPT
                           !.pc = "done",
                           !.calls = catchBlock(<<"reactions.add">>) ]
                  ELSE [ proc EXCEPT
                           !.pc = IF existingIssue # null
                                  THEN "exists" ELSE "create",
                           !.key = kvKey, !.held = existingIssue,
                           !.calls = <<"reactions.add", "KV.get">> ] ]
    /\ Others

\* handleMention, if (existingIssue): say, reactions.remove, return.
MentionExists ==
    /\ \E p \in Running("handleMention", "exists"), throws \in BOOLEAN :
         handler' =
           [ handler EXCEPT
               !.procs[p].pc = "done",
               !.procs[p].number = parse(handler.procs[p].held).issueNumber,
               !.procs[p].calls =
                  IF throws
                  THEN catchBlock(@ \o <<"say:exists">>)
                  ELSE @ \o <<"say:exists", "reactions.remove">> ]
    /\ Others

\* handleMention: fetchThreadHistory and github.createIssue.
MentionCreate ==
    /\ \E p \in Running("handleMention", "create"), fails \in BOOLEAN :
         LET proc == handler.procs[p]
             result == [ number |-> issueNumber + Len(handler.issues),
                         channel |-> proc.channel, root |-> proc.root ]
         IN handler' =
              IF fails
              THEN [ handler EXCEPT
                       !.procs[p].pc = "done",
                       !.procs[p].calls = @ \o
                          <<"conversations.replies", "createIssue",
                            "reactions.remove", "say:error">> ]
              ELSE [ handler EXCEPT
                       !.issues = Append(@, result),
                       !.procs[p].pc = "put",
                       !.procs[p].number = result.number,
                       !.procs[p].calls = @ \o
                          <<"conversations.replies", "createIssue">> ]
    /\ Others

\* handleMention: KV.put(kvKey, JSON.stringify(kvData)) within its own try.
MentionPut ==
    /\ \E p \in Running("handleMention", "put"), throws \in BOOLEAN :
         LET proc == handler.procs[p]
             kvData == [ issueNumber |-> proc.number, channel |-> proc.channel,
                         threadId |-> threadIdOf(proc.thread_ts, proc.ts) ]
         IN handler' =
              [ handler EXCEPT
                  !.kv = IF throws THEN @
                         ELSE KVput(@, proc.key, stringify(kvData)),
                  !.procs[p].pc = "reply",
                  !.procs[p].calls = @ \o IF throws THEN <<"KV.put", "throw">>
                                          ELSE <<"KV.put">> ]
    /\ Others

\* handleMention: say, reactions.remove and triggerProgressCheck.
MentionReply ==
    /\ \E p \in Running("handleMention", "reply"), throws \in BOOLEAN :
         LET proc == handler.procs[p] IN
         handler' =
           IF throws
           THEN [ handler EXCEPT
                    !.procs[p].pc = "done",
                    !.procs[p].calls = catchBlock(@ \o <<"say:created">>) ]
           ELSE [ handler EXCEPT
                    !.sessions = Append(@,
                       [ issueNumber |-> proc.number, channel |-> proc.channel,
                         threadId |-> threadIdOf(proc.thread_ts, proc.ts),
                         root |-> proc.root, attemptCount |-> 0 ]),
                    !.procs[p].pc = "done",
                    !.procs[p].calls = @ \o
                       <<"say:created", "reactions.remove",
                         "triggerProgressCheck">> ]
    /\ Others

\* The message event handler returns early for a bot message and for a text
\* that includes the mention of the bot.
skips(payload, env) ==
    \/ payload.subtype = "bot_message"
    \/ includes(payload.text, botMention(env))

\* The message event handler: the two early returns, KV.get(kvKey) and,
\* if (issueData), handleReply.
MessageLookup ==
    /\ \E p \in Running("message", "lookup") :
         LET proc == handler.procs[p]
             kvKey == kvKeyOf(proc)
             issueData == KVget(handler.kv, kvKey)
         IN handler' =
              IF skips(proc, handler.env)
              THEN [ handler EXCEPT !.procs[p].pc = "done" ]
              ELSE [ handler EXCEPT
                       !.procs[p].key = kvKey,
                       !.procs[p].op = IF issueData # null
                                       THEN "handleReply" ELSE "message",
                       !.procs[p].pc = IF issueData # null
                                       THEN "get" ELSE "done" ]
    /\ Others

\* handleReply: reactions.add, KV.get(kvKey) and, if (!issueDataStr),
\* reactions.remove and return. held is what the namespace holds for the
\* key at this time, whether or not the handler comes to read it.
ReplyGet ==
    /\ \E p \in Running("handleReply", "get"),
          throws \in {"none", "reactions.add", "reactions.remove"} :
         LET proc == handler.procs[p]
             kvKey == getKVKey(proc.channel,
                               threadIdOf(proc.thread_ts, proc.ts))
             issueDataStr == KVget(handler.kv, kvKey)
         IN /\ throws = "reactions.remove" => issueDataStr = null
            /\ handler' =
                 [ handler EXCEPT
                     !.procs[p].held = issueDataStr,
                     !.procs[p].pc = IF throws = "none" /\ issueDataStr # null
                                     THEN "comment" ELSE "done",
                     !.procs[p].calls =
                        IF throws = "reactions.add"
                        THEN catchBlock(<<"reactions.add">>)
                        ELSE IF issueDataStr # null
                        THEN <<"reactions.add", "KV.get">>
                        ELSE IF throws = "reactions.remove"
                        THEN catchBlock(<<"reactions.add", "KV.get",
                                          "reactions.remove">>)
                        ELSE <<"reactions.add", "KV.get", "reactions.remove">> ]
    /\ Others

\* handleReply: github.createIssueComment(issueData.issueNumber, commentBody),
\* say and reactions.remove.
ReplyComment ==
    /\ \E p \in Running("handleReply", "comment"), fails \in BOOLEAN :
         LET proc == handler.procs[p]
             issueData == parse(proc.held)
         IN handler' =
              IF fails
              THEN [ handler EXCEPT
                       !.procs[p].pc = "done",
                       !.procs[p].number = issueData.issueNumber,
                       !.procs[p].calls = @ \o
                          <<"createIssueComment", "reactions.remove",
                            "say:error">> ]
              ELSE [ handler EXCEPT
                       !.comments = Append(@, [ issue |-> issueData.issueNumber,
                                                by |-> p ]),
                       !.procs[p].pc = "done",
                       !.procs[p].number = issueData.issueNumber,
                       !.procs[p].calls = @ \o
                          <<"createIssueComment", "say:added",
                            "reactions.remove">> ]
    /\ Others

\* expirationTtl: 86400 * 30: the namespace drops a value when its 30 days
\* are over.
Expire ==
    /\ handler.expired < MaxExpiries
    /\ \E r \in handler.kv :
         handler' = [ handler EXCEPT !.kv = @ \ {r}, !.expired = @ + 1 ]
    /\ Others

HandlerNext ==
    \/ AppMention \/ MessageEvent
    \/ MentionGet \/ MentionExists \/ MentionCreate \/ MentionPut \/ MentionReply
    \/ MessageLookup \/ ReplyGet \/ ReplyComment
    \/ Expire

HandlerSpec == HandlerInit /\ [][HandlerNext]_vars

\* ------------------------------------------ reading the event handlers
\* Handler p has made the call; the call threw.
Called(p, call) ==
    \E k \in DOMAIN handler.procs[p].calls : handler.procs[p].calls[k] = call

Threw(p, call) ==
    \E k \in DOMAIN handler.procs[p].calls :
       /\ handler.procs[p].calls[k] = call
       /\ k < Len(handler.procs[p].calls)
       /\ handler.procs[p].calls[k + 1] = "throw"

ThrewAny(p) == Called(p, "throw")

\* The handleMention and handleReply calls, and those that have returned.
Mentions == { p \in DOMAIN handler.procs : handler.procs[p].op = "handleMention" }
Replies == { p \in DOMAIN handler.procs : handler.procs[p].op = "handleReply" }
Finished(p) == handler.procs[p].pc = "done"

\* The issues created and the sessions started for the thread of a root.
IssuesOf(root) ==
    { i \in DOMAIN handler.issues : handler.issues[i].root = root }
SessionsOf(root) ==
    { i \in DOMAIN handler.sessions : handler.sessions[i].root = root }

\* The issues handler p has created a comment on.
CommentedBy(p) ==
    { handler.comments[i].issue :
        i \in { j \in DOMAIN handler.comments : handler.comments[j].by = p } }

\* The say calls of handler p.
Said(p) ==
    { handler.procs[p].calls[k] :
        k \in { j \in DOMAIN handler.procs[p].calls :
                  handler.procs[p].calls[j] \in
                    {"say:exists", "say:created", "say:added", "say:error"} } }

\* C24: while every KV.put has succeeded and no value has expired, handleMention
\* calls for one thread, however they interleave, have created at most one
\* issue and started at most one session for the thread.
C24_OneIssuePerThread ==
    (handler.expired = 0 /\ \A p \in Mentions : ~Threw(p, "KV.put")) =>
        \A root \in 1..MaxThreads :
           /\ Cardinality(IssuesOf(root)) <= 1
           /\ Cardinality(SessionsOf(root)) <= 1

\* C25: a handleMention call that found a value under the thread's key
\* creates no issue, puts nothing and starts no progress check, and says that
\* the issue exists; and when the mentions of a thread came one after the
\* other, one of them announced the issue it created and no value has
\* expired, the thread has exactly one issue.
C25_ExistingRecordOnlyReplies ==
    /\ \A p \in Mentions :
         handler.procs[p].held # null =>
            /\ ~Called(p, "createIssue")
            /\ ~Called(p, "KV.put")
            /\ ~Called(p, "triggerProgressCheck")
            /\ Finished(p) => Called(p, "say:exists")
            /\ Said(p) \subseteq {"say:exists", "say:error"}
    /\ \A root \in 1..MaxThreads :
         ( /\ ~handler.overlap
           /\ handler.expired = 0
           /\ \E p \in Mentions :
                 /\ handler.procs[p].root = root
                 /\ Finished(p)
                 /\ Called(p, "say:created") /\ ~Threw(p, "say:created") )
         => Cardinality(IssuesOf(root)) = 1

EventInit ==
    /\ now = T0
    /\ comments = <<>>
    /\ nextId = 1
    /\ queue = <<>>
    /\ thread = <<>>
    /\ eyes = {}
    /\ changed = FALSE
    /\ cycle = [n |-> 0]
    /\ pure = [op |-> "none"]
    /\ consumer = NoBatch
    /\ \E env \in {Configured, Unconfigured} :
         handler =
           [ kv |-> KVput({}, getKVKey("C1", OriginalTs),
                          stringify([ issueNumber |-> issueNumber,
                                      channel |-> "C1",
                                      threadId |-> OriginalTs ])),
             issues |-> << [ number |-> issueNumber, channel |-> "C1",
                             root |-> OriginalTs ] >>,
             comments |-> <<>>,
             sessions |-> << [ issueNumber |-> issueNumber, channel |-> "C1",
                               threadId |-> OriginalTs, root |-> OriginalTs,
                               attemptCount |-> 0 ] >>,
             procs |-> <<>>, expired |-> 0, overlap |-> FALSE, env |-> env ]

\* Somebody, or the bot, posts a message in the thread. Slack delivers a
\* message event for it and, when the text mentions the bot, an app_mention
\* event as well.
ThreadMessage ==
    /\ \E text \in {PlainText, MentionText, OtherMentionText},
          subtype \in {"none", "bot_message"} :
         LET ts == MaxThreads + Len(handler.procs) + 1
             message == Invoked("message", "lookup", OriginalTs, OriginalTs,
                                ts, text, subtype)
             mention == Invoked("handleMention", "get", OriginalTs, OriginalTs,
                                ts, text, subtype)
             events == IF includes(text, mentionOf(BotUserId))
                          /\ subtype = "none"
                       THEN <<message, mention>> ELSE <<message>>
         IN /\ Len(handler.procs) + Len(events) <= MaxEvents
            /\ handler' = [ handler EXCEPT !.procs = @ \o events ]
    /\ Others

EventNext ==
    \/ ThreadMessage
    \/ MentionGet \/ MentionExists \/ MentionCreate \/ MentionPut \/ MentionReply
    \/ MessageLookup \/ ReplyGet \/ ReplyComment
    \/ Expire

EventSpec == EventInit /\ [][EventNext]_vars

\* C31: an event handler for a message for which handleMention is invoked as
\* well never calls handleReply and never creates a comment, with
\* SLACK_BOT_USER_ID set or not.
C31_MentionNotAlsoReply ==
    \A p \in Mentions, q \in DOMAIN handler.procs :
       ( /\ q # p
         /\ handler.procs[q].ts = handler.procs[p].ts
         /\ handler.procs[q].op \in {"message", "handleReply"} )
       => /\ handler.procs[q].op = "message"
          /\ CommentedBy(q) = {}

\* C32: of a session of which a cycle has returned terminate, no poll is
\* pending or running and no cycle has run afterwards; the calls to Slack
\* of a session are made within its cycles only.
C32_NothingAfterTermination ==
    /\ consumer.late = {}
    /\ \A issue \in consumer.ended : PollsOf(issue) = 0

\* One session has terminated, and the handler is at a later batch, with a
\* message of the other session.
C32_Witness ==
    /\ consumer.ended = {issueNumber}
    /\ consumer.pc = "loop"
    /\ Len(consumer.done) = 1
    /\ consumer.batch[1].issueNumber # issueNumber
    /\ consumer.batch[1].attemptCount > 0
    /\ queue # <<>>

\* C33: whenever the request waiting in the queue has both lastCommentId and
\* slackMessageTs, the message slackMessageTs of the thread is a message of
\* the comment lastCommentId.
C33_RefMirrorsLastComment ==
    \A i \in DOMAIN queue :
       (queue[i].lastCommentId # undefined /\ queue[i].slackMessageTs # undefined)
       => /\ queue[i].slackMessageTs \in DOMAIN thread
          /\ thread[queue[i].slackMessageTs].kind = "comment"
          /\ thread[queue[i].slackMessageTs].comment = queue[i].lastCommentId

\* C34: the chat call that carries the timeout notice or the fetch-failure
\* notice is a chat.postMessage, never a chat.update of a message of the
\* thread.
C34_NoticesArePosted ==
    Ran =>
       \A i \in ChatCalls :
          cycle.calls[i].text.kind \in {TimeoutNotice.kind, FailureNotice.kind}
          => /\ cycle.calls[i].op = "chat.postMessage"
             /\ cycle.calls[i].ts = undefined

\* C35: a handleMention or handleReply call that has returned and whose
\* reactions.add did not throw has called reactions.remove after it, on
\* whichever path it returned.
C35_EyesRemovedOnEveryPath ==
    \A p \in Mentions \cup Replies :
       (Finished(p) /\ Called(p, "reactions.add") /\ ~Threw(p, "reactions.add"))
       => \E k \in DOMAIN handler.procs[p].calls :
             /\ handler.procs[p].calls[k] = "reactions.remove"
             /\ ~(k < Len(handler.procs[p].calls)
                  /\ handler.procs[p].calls[k + 1] = "throw")
             /\ \E a \in 1..(k - 1) : handler.procs[p].calls[a] = "reactions.add"

\* A handleMention call has returned through its catch block after say threw,
\* and a handleReply call has returned through its own after it found no
\* value and reactions.remove threw.
C35_Witness ==
    \E p \in Mentions, q \in Replies :
       /\ Finished(p) /\ Threw(p, "say:created")
       /\ Called(p, "reactions.remove")
       /\ Finished(q) /\ handler.procs[q].held = null
       /\ Threw(q, "reactions.remove")

\* The latest comment of the list the polled cycle fetched.
PolledList == getIssueComments(pure.all, FALSE).list
PolledLatest == latestOf(PolledList)

\* C36: in a cycle that fetched a non-empty list exactly one of these holds:
\* the latest comment is new, it has been updated, the cycle took the
\* unchanged branch; new and updated never hold together.
C36_ClassificationIsPartition ==
    (Polled /\ PolledList # <<>>) =>
        LET new == isNewComment(pure.request.lastCommentId, PolledLatest)
            updated == hasBeenUpdated(pure.request.lastCommentId, PolledLatest)
            unchanged == pure.out.path = "unchanged"
        IN /\ new \/ updated \/ unchanged
           /\ ~(new /\ updated)
           /\ ~(new /\ unchanged)
           /\ ~(updated /\ unchanged)
           /\ new <=> pure.out.log = "created"
           /\ updated <=> pure.out.log = "updated"

\* A cycle on an issue of two comments that finds its last mirrored comment
\* edited.
C36_Witness ==
    /\ Polled
    /\ Len(pure.all) = 2
    /\ pure.request.lastCommentId = PolledLatest.id
    /\ PolledLatest.updated_at > PolledLatest.created_at
    /\ pure.out.log = "updated"
    /\ pure.out.path # "unchanged"

\* C37: a pass of the while loop breaks the paragraph at an index from 1 to
\* maxLength - 100, and the paragraph that remains is shorter by at least the
\* break point, so shorter than before; and formatCommentForSlack returns a
\* sequence of at most as many messages as the body has characters, and one
\* for the link.
C37_LoopShrinksParagraph ==
    /\ (SplitTried /\ pure.tooLong) =>
          /\ pure.split.breakPoint >= 1
          /\ pure.split.breakPoint <= maxLength - 100
          /\ Len(pure.split.paragraph)
               <= Len(pure.paragraph) - pure.split.breakPoint
          /\ Len(pure.split.paragraph) < Len(pure.paragraph)
    /\ Formatted =>
          /\ Len(pure.messages) >= 1
          /\ Len(pure.messages) <= Len(pure.comment.body) + 1

\* A paragraph too long whose only separator is at index 0: the pass breaks
\* it at maxLength - 100.
C37_Witness ==
    /\ SplitTried /\ pure.tooLong
    /\ pure.split.lastPeriod = 0
    /\ pure.split.lastSpace < 0 /\ pure.split.lastNewline < 0
    /\ pure.split.breakPoint = maxLength - 100
    /\ Len(pure.split.paragraph) = Len(pure.paragraph) - (maxLength - 100)

\* C38: the messages of an edited comment are sent one call each, in order,
\* and the first is never longer than 3900 characters; when the request holds
\* slackMessageTs the first call is chat.update of slackMessageTs and the
\* rest are chat.postMessage, so the "too long" branch is not taken.
C38_FirstChunkIsAlwaysAnEdit ==
    (pure.op = "emitComment" /\ pure.applied /\ pure.hasBeenUpdated) =>
        LET calls == pure.out.calls
            N == Len(pure.slackMessages) IN
        /\ N >= 1
        /\ pure.slackMessages[1].length <= 3900
        /\ Len(calls) = N
        /\ \A i \in 1..N : calls[i].text = pure.slackMessages[i]
        /\ pure.request.slackMessageTs # undefined =>
              /\ calls[1].op = "chat.update"
              /\ calls[1].ts = pure.request.slackMessageTs
              /\ \A i \in 2..N : calls[i].op = "chat.postMessage"
              /\ pure.out.thread[pure.request.slackMessageTs]
                   = pure.slackMessages[1]

\* An edited comment whose first message is over maxLength - 100 characters
\* long, sent as an edit of slackMessageTs and followed by a new message.
C38_Witness ==
    /\ pure.op = "emitComment" /\ pure.applied /\ pure.hasBeenUpdated
    /\ pure.request.slackMessageTs # undefined
    /\ Len(pure.slackMessages) >= 2
    /\ pure.slackMessages[1].length > maxLength - 100
    /\ pure.out.calls[1].op = "chat.update"
    /\ pure.out.calls[2].op = "chat.postMessage"

====
